---- MODULE Spec2Model ----
(***************************************************************************)
(* Renogy BLE polling core: the per-device availability state machine      *)
(* (RenogyBLEDevice), the coordinator of custom_components/renogy          *)
(* (RenogyActiveBluetoothCoordinator) and the polling client of            *)
(* custom_components/renogy_ha (RenogyBLEClient).                          *)
(*                                                                         *)
(* Time is the wall clock read by datetime.now(), counted in minutes.      *)
(* Every coroutine is cut at its awaits: one action runs from one          *)
(* suspension point to the next, as the asyncio event loop does.           *)
(***************************************************************************)
EXTENDS Integers, Sequences, FiniteSets, TLC

VARIABLES
    now,                      \* datetime.now(), in minutes
    dev,                      \* the RenogyBLEDevice
    task,                     \* per task: where its coroutine is suspended
    connection_lock,          \* coordinator._connection_lock: its holder
    connection_in_progress,   \* coordinator._connection_in_progress
    last_update_success,      \* coordinator.last_update_success
    data,                     \* coordinator.data, the telemetry snapshot
    listeners,                \* coordinator._listeners, in insertion order
    discovered,               \* the device object exists (coordinator.device
                              \* is set; client: in discovered_devices)
    running,                  \* client._running; coordinator: started,
                              \* the timer and the subscription are set
    marked_at,                \* history: when available last became False
    retry_log,                \* history: connects made while unavailable
    attempted,                \* history: a connect began since marked_at
    event,                    \* history: the operation that ran last
    call,                     \* a function of the module called on its
                              \* own: its name, arguments and result
    scan_task,                \* client._scan_task: "None", or the polling
                              \* task ("task"), or the polling task with
                              \* a cancellation on its way ("cancelling")
    gatt,                     \* the locals of a session that is followed
                              \* call by call: notification_data,
                              \* notification_event and, as history, what
                              \* it did to the buffer and the client
    client                    \* RenogyBLEClient: device_address,
                              \* discovered_devices, _discovered_addresses

vars == <<now, dev, task, connection_lock, connection_in_progress,
          last_update_success, data, listeners, discovered, running,
          marked_at, retry_log, attempted, event, call, scan_task,
          gatt, client>>

----------------------------------------------------------------------------
(* Bounds of the model *)

MaxTime == 20
ClockStep == 5
MaxFailureCount == 4
NumKeys == 1
CoordMaxTime == 5
NumListeners == 2
MaxRawLen == 5
MaxScanInput == 700
MaxCrcLen == 3
MaxLastPoll == 2
MaxPollClock == 12
MaxChunks == 1
NumAddresses == 2
MaxScanDevices == 2

(* Program constants *)

max_failures == 3
UNAVAILABLE_RETRY_INTERVAL == 10
NumCommands == 4
MIN_SCAN_INTERVAL == 10
MAX_SCAN_INTERVAL == 600
NoTime == -1

Commands == 1..NumCommands
Listeners == 1..NumListeners
Keys == 1..NumKeys
NoTask == "none"

----------------------------------------------------------------------------
(* RenogyBLEDevice *)

RenogyBLEDevice ==
    [failure_count |-> 0, available |-> TRUE,
     last_unavailable_time |-> NoTime, parsed_data |-> {}]

is_available(d) == d.available /\ d.failure_count < max_failures

\* should_retry_connection that does not restart the retry interval when
\* it grants a retry.
should_retry_connection_no_reset(d, t) ==
    IF is_available(d)
    THEN [ret |-> TRUE, dev |-> d]
    ELSE IF d.last_unavailable_time = NoTime
    THEN [ret |-> FALSE, dev |-> [d EXCEPT !.last_unavailable_time = t]]
    ELSE IF t >= d.last_unavailable_time + UNAVAILABLE_RETRY_INTERVAL
    THEN [ret |-> TRUE, dev |-> d]
    ELSE [ret |-> FALSE, dev |-> d]

\* The property has a side effect on last_unavailable_time: the result is
\* the returned value together with the device afterwards.
should_retry_connection(d, t) ==
    IF is_available(d)
    THEN [ret |-> TRUE, dev |-> d]
    ELSE IF d.last_unavailable_time = NoTime
    THEN [ret |-> FALSE, dev |-> [d EXCEPT !.last_unavailable_time = t]]
    ELSE IF t >= d.last_unavailable_time + UNAVAILABLE_RETRY_INTERVAL
    THEN [ret |-> TRUE, dev |-> [d EXCEPT !.last_unavailable_time = t]]
    ELSE [ret |-> FALSE, dev |-> d]

\* update_availability that keeps last_unavailable_time on recovery.
update_availability_keeps_time(d, success, t) ==
    IF success
    THEN IF ~d.available
         THEN [d EXCEPT !.failure_count = 0, !.available = TRUE]
         ELSE [d EXCEPT !.failure_count = 0]
    ELSE IF d.failure_count + 1 >= max_failures /\ d.available
         THEN [d EXCEPT !.failure_count = @ + 1, !.available = FALSE,
                        !.last_unavailable_time = t]
         ELSE [d EXCEPT !.failure_count = @ + 1]

\* update_availability with the threshold compared by > instead of >=.
update_availability_late(d, success, t) ==
    IF success
    THEN IF ~d.available
         THEN [d EXCEPT !.failure_count = 0, !.available = TRUE,
                        !.last_unavailable_time = NoTime]
         ELSE [d EXCEPT !.failure_count = 0]
    ELSE IF d.failure_count + 1 > max_failures /\ d.available
         THEN [d EXCEPT !.failure_count = @ + 1, !.available = FALSE,
                        !.last_unavailable_time = t]
         ELSE [d EXCEPT !.failure_count = @ + 1]

update_availability(d, success, t) ==
    IF success
    THEN IF ~d.available
         THEN [d EXCEPT !.failure_count = 0, !.available = TRUE,
                        !.last_unavailable_time = NoTime]
         ELSE [d EXCEPT !.failure_count = 0]
    ELSE IF d.failure_count + 1 >= max_failures /\ d.available
         THEN [d EXCEPT !.failure_count = @ + 1, !.available = FALSE,
                        !.last_unavailable_time = t]
         ELSE [d EXCEPT !.failure_count = @ + 1]

----------------------------------------------------------------------------
(* History of the run: what the last operation was and what it did. *)

\* op: the operation; task: the task that ran it; ret: what it returned
\* ("True", "False", "None", "raised", or "pending" while it is suspended);
\* avail: the update_availability calls it made, in order; rounds: the
\* listener rounds it ran, each with the listeners invoked and whether one
\* raised; callback: the outcome of the device-data callback; escaped: an
\* exception left the handler that the task was running; any: a command of
\* the session was parsed; error: a transport call of the session raised.
Ev(op, t, ret, avail, rounds, callback, escaped, any, error) ==
    [op |-> op, task |-> t, ret |-> ret, avail |-> avail,
     rounds |-> rounds, callback |-> callback, escaped |-> escaped,
     any |-> any, error |-> error]

Plain(op, t, ret) ==
    Ev(op, t, ret, <<>>, <<>>, "none", FALSE, FALSE, FALSE)

\* The last two entries of a log with t appended.
Logged(log, t) == IF Len(log) < 2 THEN Append(log, t) ELSE <<log[2], t>>

\* The history of availability, kept beside every change of the device:
\* dNew is the device after the step, connecting says that the step began a
\* transport connect.  marked_at is the time at which available turned
\* False, retry_log the times of the last two connects begun since then
\* while the device was unavailable.
Track(dNew, connecting) ==
    /\ marked_at' = IF dev.available /\ ~dNew.available THEN now
                    ELSE IF dNew.available THEN NoTime
                    ELSE marked_at
    /\ retry_log' = IF dNew.available THEN <<>>
                    ELSE IF connecting THEN Logged(retry_log, now)
                    ELSE retry_log
    /\ attempted' = IF connecting THEN TRUE
                    ELSE IF dev.available /\ ~dNew.available THEN FALSE
                    ELSE attempted

\* The clock is read every ClockStep minutes.
Tick(limit) ==
    /\ now + ClockStep <= limit
    /\ now' = now + ClockStep
    /\ event' = Plain("tick", NoTask, "None")
    /\ UNCHANGED <<client, dev, task, connection_lock, connection_in_progress,
                   last_update_success, data, listeners, discovered,
                   marked_at, retry_log, attempted, running, call,
                   gatt, scan_task>>

----------------------------------------------------------------------------
(* The device alone: any sequence of update_availability and               *)
(* should_retry_connection calls on a fresh device, as time passes.        *)

\* RenogyBLEClient(device_address=...): no device is known.  The entries of
\* discovered_devices are written <<address, name>>, with the name of the
\* advertisement that the entry was made for.
NoAddress == 0
RenogyBLEClient(device_address) ==
    [device_address |-> device_address, discovered_devices |-> {},
     discovered_addresses |-> {}]

\* No session is followed call by call.
NoGatt == [notification_data |-> <<>>, notification_event |-> FALSE,
           is_connected |-> FALSE, calls |-> <<>>, results |-> <<>>]

InitShared ==
    /\ now = 0
    /\ dev = RenogyBLEDevice
    /\ connection_lock = NoTask
    /\ connection_in_progress = FALSE
    /\ last_update_success = TRUE
    /\ data = {}
    /\ discovered = FALSE
    /\ running = FALSE
    /\ marked_at = NoTime
    /\ retry_log = <<>>
    /\ attempted = FALSE
    /\ event = Plain("init", NoTask, "None")
    /\ call = [op |-> "none", args |-> <<>>, ret |-> <<>>]
    /\ scan_task = "None"
    /\ gatt = NoGatt

\* No RenogyBLEClient, or one that takes every Renogy device.
InitCommon ==
    /\ InitShared
    /\ client = RenogyBLEClient(NoAddress)

\* A RenogyBLEClient made for one device_address.
InitOneDevice ==
    /\ InitShared
    /\ client = RenogyBLEClient(1)

InitDevice ==
    /\ InitCommon
    /\ task = <<>>
    /\ listeners = <<>>

DeviceUpdateAvailability(success) ==
    /\ success \/ dev.failure_count < MaxFailureCount
    /\ dev' = update_availability(dev, success, now)
    /\ Track(dev', FALSE)
    /\ event' = Ev("update_availability", NoTask, "None", <<success>>,
                   <<>>, "none", FALSE, FALSE, FALSE)
    /\ call' = IF dev.available /\ ~dev'.available
               THEN [op |-> "should_retry_connection", args |-> <<>>,
                     ret |-> <<>>]
               ELSE call
    /\ UNCHANGED <<now, client, gatt, scan_task, task, connection_lock,
                   connection_in_progress, last_update_success, data,
                   listeners, discovered, running>>

\* call.ret keeps what the checks made since the device became unavailable
\* have returned (the last two of them).
DeviceShouldRetryConnection ==
    /\ dev' = should_retry_connection(dev, now).dev
    /\ Track(dev', FALSE)
    /\ event' = Plain("should_retry_connection", NoTask,
                      IF should_retry_connection(dev, now).ret
                      THEN "True" ELSE "False")
    /\ call' = IF is_available(dev) THEN call
               ELSE [call EXCEPT
                        !.ret = Logged(@, should_retry_connection(dev, now).ret)]
    /\ UNCHANGED <<now, client, gatt, scan_task, task, connection_lock,
                   connection_in_progress, last_update_success, data,
                   listeners, discovered, running>>

NextDevice ==
    \/ \E success \in BOOLEAN : DeviceUpdateAvailability(success)
    \/ DeviceShouldRetryConnection
    \/ Tick(MaxTime)

SpecDevice == InitDevice /\ [][NextDevice]_vars

----------------------------------------------------------------------------
(* Sessions.  A task is suspended at one of the awaits of a session:       *)
(* connect, start_notify, command (the write of command cmd and the wait   *)
(* for its notification), stop_notify, disconnect; or it waits for the     *)
(* connection lock; or it is idle.                                         *)

\* cmd: the command in flight; any: any_command_succeeded; success: the
\* session's success; error: a transport call of the session has raised.
\* todo: the devices of the scan that the loop has still to process;
\* cancel: Task.cancel() has been called and the CancelledError is still to
\* be raised in the task.
At(pc) == [pc |-> pc, cmd |-> 0, any |-> FALSE, success |-> FALSE,
           error |-> FALSE, todo |-> <<>>, cancel |-> FALSE]

Idle == At("idle")

InSession(t) == task[t].pc \in {"connect", "start_notify", "command",
                                "stop_notify", "disconnect"}

\* parsed_data is a dict, written as the set of its <<key, value>> pairs.
KeysOf(dict) == {p[1] : p \in dict}

\* dict.update(new)
dict_update(dict, new) == {p \in dict : p[1] \notin KeysOf(new)} \cup new

\* function_code & 0x80
ErrorBit(function_code) == (function_code \div 128) % 2 = 1

\* What update_parsed_data answers: ret is the value returned, invoked says
\* that RenogyParser.parse was called, dev is the device afterwards.
Parsed(ret, invoked, d) == [ret |-> ret, invoked |-> invoked, dev |-> d]

\* update_parsed_data without the test of the function code.
update_parsed_data_no_error_test(d, raw_data, parser_available, parse) ==
    IF Len(raw_data) = 0 THEN Parsed(FALSE, FALSE, d)
    ELSE IF ~parser_available THEN Parsed(FALSE, FALSE, d)
    ELSE IF Len(raw_data) < 5 THEN Parsed(FALSE, FALSE, d)
    ELSE IF parse.raises THEN Parsed(FALSE, TRUE, d)
    ELSE IF parse.fields = {} THEN Parsed(FALSE, TRUE, d)
    ELSE Parsed(TRUE, TRUE,
                [d EXCEPT !.parsed_data = dict_update(@, parse.fields)])

\* update_parsed_data that stores the decoded dict in place of the old one.
update_parsed_data_replace(d, raw_data, parser_available, parse) ==
    IF Len(raw_data) = 0 THEN Parsed(FALSE, FALSE, d)
    ELSE IF ~parser_available THEN Parsed(FALSE, FALSE, d)
    ELSE IF Len(raw_data) < 5 THEN Parsed(FALSE, FALSE, d)
    ELSE IF ErrorBit(raw_data[2]) THEN Parsed(FALSE, FALSE, d)
    ELSE IF parse.raises THEN Parsed(FALSE, TRUE, d)
    ELSE IF parse.fields = {} THEN Parsed(FALSE, TRUE, d)
    ELSE Parsed(TRUE, TRUE, [d EXCEPT !.parsed_data = parse.fields])

\* update_parsed_data that drops what was parsed before when the decoder
\* raises.
update_parsed_data_drops(d, raw_data, parser_available, parse) ==
    IF Len(raw_data) = 0 THEN Parsed(FALSE, FALSE, d)
    ELSE IF ~parser_available THEN Parsed(FALSE, FALSE, d)
    ELSE IF Len(raw_data) < 5 THEN Parsed(FALSE, FALSE, d)
    ELSE IF ErrorBit(raw_data[2]) THEN Parsed(FALSE, FALSE, d)
    ELSE IF parse.raises
    THEN Parsed(FALSE, TRUE, [d EXCEPT !.parsed_data = {}])
    ELSE IF parse.fields = {} THEN Parsed(FALSE, TRUE, d)
    ELSE Parsed(TRUE, TRUE,
                [d EXCEPT !.parsed_data = dict_update(@, parse.fields)])

\* update_parsed_data(raw_data, register, cmd_name).  parser_available is
\* the module's PARSER_AVAILABLE; parse is what RenogyParser.parse does
\* with this input when it is called: it raises, or it returns the dict
\* fields (empty when nothing could be decoded).
update_parsed_data(d, raw_data, parser_available, parse) ==
    IF Len(raw_data) = 0 THEN Parsed(FALSE, FALSE, d)
    ELSE IF ~parser_available THEN Parsed(FALSE, FALSE, d)
    ELSE IF Len(raw_data) < 5 THEN Parsed(FALSE, FALSE, d)
    ELSE IF ErrorBit(raw_data[2]) THEN Parsed(FALSE, FALSE, d)
    ELSE IF parse.raises THEN Parsed(FALSE, TRUE, d)
    ELSE IF parse.fields = {} THEN Parsed(FALSE, TRUE, d)
    ELSE Parsed(TRUE, TRUE,
                [d EXCEPT !.parsed_data = dict_update(@, parse.fields)])

\* In a session the response that update_parsed_data accepts is a frame of
\* the device (address 0xFF, function 3) in which the decoder finds the
\* keys of fields; each value is the time of the reading.
SessionFrame == <<255, 3, 2, 0, 0, 0, 0>>
SessionParse(fields) ==
    [raises |-> FALSE, fields |-> {<<k, now>> : k \in fields}]

\* The test that does not look at the result of the session.
callback_due_any_result(success, d) == d.parsed_data # {}

\* The test after a session that decides whether the device-data callback
\* is called: "if success and ... parsed_data".
callback_due(success, d) == success /\ d.parsed_data # {}

----------------------------------------------------------------------------
(* RenogyActiveBluetoothCoordinator *)

\* "timer" and "manual" run async_request_refresh (the interval timer and
\* an entity or the setup code); "poll" is the base class calling the
\* poll_method.
CoordTasks == {"timer", "manual", "poll"}
RefreshTasks == {"timer", "manual"}

InitCoord ==
    /\ InitCommon
    /\ task = [t \in CoordTasks |-> Idle]
    /\ listeners = <<>>

\* The coordinator with its observers: one manual refresh and the base
\* class's poll, and entities that register and remove listeners.
NotifyTasks == {"manual", "poll"}

InitNotify ==
    /\ InitCommon
    /\ task = [t \in NotifyTasks |-> Idle]
    /\ listeners = <<>>

AsyncAddListener(l) ==
    /\ l <= Len(listeners) + 1
    /\ listeners' = IF \E i \in 1..Len(listeners) : listeners[i] = l
                    THEN listeners ELSE Append(listeners, l)
    /\ event' = Plain("async_add_listener", NoTask, "None")
    /\ UNCHANGED <<now, client, call, gatt, scan_task, dev, task, connection_lock, connection_in_progress,
                   last_update_success, data, discovered,
                   marked_at, retry_log, attempted, running>>

RemoveListener(l) ==
    /\ listeners' = SelectSeq(listeners, LAMBDA x : x # l)
    /\ event' = Plain("remove_listener", NoTask, "None")
    /\ UNCHANGED <<now, client, call, gatt, scan_task, dev, task, connection_lock, connection_in_progress,
                   last_update_success, data, discovered,
                   marked_at, retry_log, attempted, running>>

\* One round over the listeners, in order; raisers are the listeners that
\* raise when called.  The loop has no handler: the first listener that
\* raises ends it.
async_update_listeners(ls, raisers) ==
    LET bad == {i \in 1..Len(ls) : ls[i] \in raisers}
        stop == IF bad = {} THEN Len(ls)
                ELSE CHOOSE i \in bad : \A j \in bad : i <= j
    IN [invoked |-> {ls[i] : i \in 1..stop}, raised |-> bad # {}]

\* _read_device_data that takes the lock and leaves the flag as it is.
ReadDeviceDataEnter_NoFlag(t) ==
    IF connection_lock = NoTask
    THEN /\ connection_lock' = t
         /\ connection_in_progress' = connection_in_progress
         /\ discovered' = TRUE
         /\ task' = [task EXCEPT ![t] = At("connect")]
    ELSE /\ task' = [task EXCEPT ![t] = At("wait_lock")]
         /\ UNCHANGED <<connection_lock, connection_in_progress, discovered>>

\* _read_device_data from the lock to the first await.  The lock is free:
\* the task takes it, sets the flag, creates the device on the first call
\* and calls establish_connection.  The lock is held: the task queues.
ReadDeviceDataEnter(t) ==
    IF connection_lock = NoTask
    THEN /\ connection_lock' = t
         /\ connection_in_progress' = TRUE
         /\ discovered' = TRUE
         /\ task' = [task EXCEPT ![t] = At("connect")]
    ELSE /\ task' = [task EXCEPT ![t] = At("wait_lock")]
         /\ UNCHANGED <<connection_lock, connection_in_progress, discovered>>

AsyncRequestRefresh(t, service_info) ==
    /\ task[t].pc = "idle"
    /\ IF connection_in_progress
       THEN /\ event' = Plain("async_request_refresh", t, "skipped")
            /\ UNCHANGED <<dev, task, connection_lock,
                           connection_in_progress, last_update_success,
                           discovered>>
       ELSE IF ~service_info
       THEN /\ last_update_success' = FALSE
            /\ event' = Plain("async_request_refresh", t, "None")
            /\ UNCHANGED <<dev, task, connection_lock,
                           connection_in_progress, discovered>>
       ELSE /\ ReadDeviceDataEnter(t)
            /\ event' = Plain("async_request_refresh", t, "pending")
            /\ UNCHANGED <<dev, last_update_success>>
    /\ UNCHANGED <<now, client, call, gatt, scan_task, data, listeners, marked_at, retry_log, attempted, running>>

AsyncPoll(t) ==
    /\ task[t].pc = "idle"
    /\ IF connection_in_progress
       THEN /\ event' = Plain("_async_poll", t, "skipped")
            /\ UNCHANGED <<task, connection_lock, connection_in_progress,
                           discovered>>
       ELSE /\ ReadDeviceDataEnter(t)
            /\ event' = Plain("_async_poll", t, "pending")
    /\ UNCHANGED <<now, client, call, gatt, scan_task, dev, last_update_success, data, listeners,
                   marked_at, retry_log, attempted, running>>

\* The snapshot taken of every device that has parsed data.
data_snapshot_any_result(success, d, old) ==
    IF d.parsed_data # {} THEN d.parsed_data ELSE old

\* "if success and device.parsed_data: self.data = dict(device.parsed_data)":
\* the coordinator's data after it, old being the data before.  The copy
\* is a value of its own, which later changes of parsed_data do not reach.
data_snapshot(success, d, old) ==
    IF success /\ d.parsed_data # {} THEN d.parsed_data ELSE old

\* The end of a coordinator session and of the handler that ran it, from
\* the last await to the return of the task.  d is the device as the
\* session left it; outcome is what _read_device_data does: it returns
\* "True" or "False", or an exception leaves it ("raised").
\*   _read_device_data: update_availability(success), last_update_success,
\*     the data snapshot, the flag cleared and the lock released;
\*   _async_poll: after a success with parsed data the device-data callback
\*     (its exception is caught) and one listener round, in this order,
\*     which call.ret keeps; otherwise last_update_success = False;
\*   async_request_refresh: when _async_poll returned, last_update_success =
\*     True and a listener round; when anything raised, last_update_success
\*     = False and update_availability(False).
\* A task waiting for the lock gets it now and starts its connect.
CoordFinish(t, d, outcome, error) ==
    \E cb \in {"ok", "raised"}, r1 \in SUBSET Listeners,
       r2 \in SUBSET Listeners :
    LET raised  == outcome = "raised"
        success == outcome = "True"
        d1      == IF raised THEN d ELSE update_availability(d, success, now)
        avail1  == IF raised THEN <<>> ELSE <<success>>
        lus1    == IF raised THEN last_update_success ELSE success
        notify  == callback_due(success, d1)
        round1  == async_update_listeners(listeners, r1)
        rounds1 == IF notify THEN <<round1>> ELSE <<>>
        pollRaised == raised \/ (notify /\ round1.raised)
        lus2    == IF raised \/ notify THEN lus1 ELSE FALSE
        refresh == t \in RefreshTasks
        round2  == async_update_listeners(listeners, r2)
        caught  == refresh /\ (pollRaised \/ round2.raised)
        d2      == IF caught THEN update_availability(d1, FALSE, now) ELSE d1
        lus3    == IF ~refresh THEN lus2 ELSE IF caught THEN FALSE ELSE TRUE
        rounds2 == IF refresh /\ ~pollRaised
                   THEN Append(rounds1, round2) ELSE rounds1
        waiters == {w \in DOMAIN task : task[w].pc = "wait_lock"}
        observers == IF notify
                     THEN <<"device_data_callback", "async_update_listeners">>
                     ELSE <<>>
    IN  /\ d2.failure_count <= MaxFailureCount
        /\ notify \/ cb = "ok"
        /\ notify \/ r1 = {}
        /\ (refresh /\ ~pollRaised) \/ r2 = {}
        /\ dev' = d2
        /\ last_update_success' = lus3
        /\ data' = data_snapshot(success, d1, data)
        /\ IF waiters = {}
           THEN /\ connection_lock' = NoTask
                /\ connection_in_progress' = FALSE
                /\ task' = [task EXCEPT ![t] = Idle]
           ELSE \E w \in waiters :
                /\ connection_lock' = w
                /\ connection_in_progress' = TRUE
                /\ task' = [task EXCEPT ![t] = Idle, ![w] = At("connect")]
        /\ event' = Ev("_read_device_data:return", t, outcome,
                       IF caught THEN Append(avail1, FALSE) ELSE avail1,
                       rounds2, IF notify THEN cb ELSE "none",
                       ~refresh /\ pollRaised, task[t].any, error)
        /\ call' = IF notify
                   THEN [op |-> "_async_poll", args |-> <<>>,
                         ret |-> observers]
                   ELSE call
        /\ UNCHANGED <<now, client, gatt, scan_task, listeners, discovered,
                       marked_at, retry_log, attempted, running>>

\* The finally clause without the disconnect.
CoordFinally_NoDisconnect(t, d, success, error, is_connected) ==
    CoordFinish(t, d, IF success THEN "True" ELSE "False", error)

\* The finally clause of the session body: a client that is still
\* connected is disconnected (one more await), then the session ends.
CoordFinally(t, d, success, error, is_connected) ==
    IF is_connected
    THEN /\ task' = [task EXCEPT ![t].pc = "disconnect", ![t].cmd = 0,
                                 ![t].success = success,
                                 ![t].error = error]
         /\ dev' = d
         /\ event' = Plain("await", NoTask, "pending")
         /\ UNCHANGED <<now, client, call, gatt, scan_task, connection_lock, connection_in_progress,
                        last_update_success, data, listeners, discovered,
                        marked_at, retry_log, attempted, running>>
    ELSE CoordFinish(t, d, IF success THEN "True" ELSE "False", error)

\* establish_connection returns a client or raises.  BleakError and
\* asyncio.TimeoutError are handled as a failed session; the handler names
\* no other exception.
CoordConnectReturns(t, outcome) ==
    /\ task[t].pc = "connect"
    /\ IF outcome = "ok"
       THEN /\ task' = [task EXCEPT ![t].pc = "start_notify"]
            /\ event' = Plain("await", NoTask, "pending")
            /\ UNCHANGED <<now, client, call, gatt, scan_task, dev, connection_lock,
                           connection_in_progress, last_update_success,
                           data, listeners, discovered,
                           marked_at, retry_log, attempted, running>>
       ELSE CoordFinish(t, dev,
                        IF outcome \in {"BleakError", "TimeoutError"}
                        THEN "False" ELSE "raised", TRUE)

CoordStartNotifyReturns(t, ok, is_connected) ==
    /\ task[t].pc = "start_notify"
    /\ IF ok
       THEN /\ is_connected
            /\ task' = [task EXCEPT ![t].pc = "command", ![t].cmd = 1]
            /\ event' = Plain("await", NoTask, "pending")
            /\ UNCHANGED <<now, client, call, gatt, scan_task, dev, connection_lock,
                           connection_in_progress, last_update_success,
                           data, listeners, discovered,
                           marked_at, retry_log, attempted, running>>
       ELSE CoordFinally(t, dev, FALSE, TRUE, is_connected)

\* One command: write_gatt_char, the wait for the notification and
\* update_parsed_data.  "error" is write_gatt_char raising.
CoordCommandReturns(t, outcome, fields, is_connected) ==
    /\ task[t].pc = "command"
    /\ IF outcome = "error"
       THEN fields = {} /\ CoordFinally(t, dev, FALSE, TRUE, is_connected)
       ELSE /\ is_connected
            /\ (outcome = "parsed") = (fields # {})
            /\ dev' = IF outcome = "parsed"
                      THEN update_parsed_data(dev, SessionFrame, TRUE,
                                              SessionParse(fields)).dev
                      ELSE dev
            /\ task' = [task EXCEPT
                   ![t].any = @ \/ outcome = "parsed",
                   ![t].pc = IF task[t].cmd < NumCommands
                             THEN "command" ELSE "stop_notify",
                   ![t].cmd = IF task[t].cmd < NumCommands
                              THEN @ + 1 ELSE 0]
            /\ event' = Plain("await", NoTask, "pending")
            /\ UNCHANGED <<now, client, call, gatt, scan_task, connection_lock, connection_in_progress,
                           last_update_success, data, listeners,
                           discovered, marked_at, retry_log, attempted, running>>

\* success = any_command_succeeded is the statement after stop_notify.
CoordStopNotifyReturns(t, ok, is_connected) ==
    /\ task[t].pc = "stop_notify"
    /\ CoordFinally(t, dev, ok /\ task[t].any, ~ok, is_connected)

CoordDisconnectReturns(t, ok) ==
    /\ task[t].pc = "disconnect"
    /\ CoordFinish(t, dev, IF task[t].success THEN "True" ELSE "False",
                   task[t].error \/ ~ok)

\* _async_handle_unavailable
CoordHandleUnavailable ==
    \E r \in SUBSET Listeners :
    LET d1 == IF discovered THEN update_availability(dev, FALSE, now)
              ELSE dev
        round == async_update_listeners(listeners, r)
    IN  /\ d1.failure_count <= MaxFailureCount
        /\ dev' = d1
        /\ last_update_success' = FALSE
        /\ event' = Ev("_async_handle_unavailable", NoTask, "None",
                       IF discovered THEN <<FALSE>> ELSE <<>>,
                       <<round>>, "none", round.raised, FALSE, FALSE)
        /\ UNCHANGED <<now, client, call, gatt, scan_task, task, connection_lock,
                       connection_in_progress, data, listeners, discovered,
                       marked_at, retry_log, attempted, running>>

CoordSession ==
    \/ \E t \in RefreshTasks \cap DOMAIN task, si \in BOOLEAN :
          AsyncRequestRefresh(t, si)
    \/ \E t \in DOMAIN task \ RefreshTasks : AsyncPoll(t)
    \/ \E t \in DOMAIN task,
          o \in {"ok", "BleakError", "TimeoutError", "OtherError"} :
          CoordConnectReturns(t, o)
    \/ \E t \in DOMAIN task, ok \in BOOLEAN, c \in BOOLEAN :
          CoordStartNotifyReturns(t, ok, c)
    \/ \E t \in DOMAIN task, c \in BOOLEAN, f \in SUBSET Keys,
          o \in {"parsed", "unparsed", "timeout", "error"} :
          CoordCommandReturns(t, o, f, c)
    \/ \E t \in DOMAIN task, ok \in BOOLEAN, c \in BOOLEAN :
          CoordStopNotifyReturns(t, ok, c)
    \/ \E t \in DOMAIN task, ok \in BOOLEAN : CoordDisconnectReturns(t, ok)
    \/ CoordHandleUnavailable

NextCoord ==
    \/ CoordSession
    \/ Tick(CoordMaxTime)

NextNotify ==
    \/ CoordSession
    \/ \E l \in Listeners : AsyncAddListener(l)
    \/ \E l \in Listeners : RemoveListener(l)

SpecCoord == InitCoord /\ [][NextCoord]_vars

SpecNotify == InitNotify /\ [][NextNotify]_vars

----------------------------------------------------------------------------
(* Starting and stopping the coordinator.  running says that async_start   *)
(* has subscribed the interval timer (_unsub_refresh) and the Bluetooth    *)
(* callbacks and that async_stop has not cancelled them since.             *)

StartStopTasks == {"timer", "poll"}

InitStartStop ==
    /\ InitCommon
    /\ task = [t \in StartStopTasks |-> Idle]
    /\ listeners = <<>>

\* async_start: the subscriptions are made; the first refresh is left to
\* the timer task.
AsyncStart ==
    /\ ~running
    /\ running' = TRUE
    /\ event' = Plain("async_start", NoTask, "None")
    /\ UNCHANGED <<now, client, call, gatt, scan_task, dev, task, connection_lock,
                   connection_in_progress, last_update_success, data,
                   listeners, discovered, marked_at, retry_log, attempted>>

\* async_stop: the timer and the Bluetooth subscription are cancelled and
\* the listeners dropped.  No task is cancelled.
AsyncStop ==
    /\ running
    /\ running' = FALSE
    /\ listeners' = <<>>
    /\ event' = Plain("async_stop", NoTask, "None")
    /\ UNCHANGED <<now, client, call, gatt, scan_task, dev, task, connection_lock,
                   connection_in_progress, last_update_success, data,
                   discovered, marked_at, retry_log, attempted>>

\* The triggers fire while the subscriptions stand; the awaits of a session
\* return whenever the transport answers.
NextStartStop ==
    \/ AsyncStart
    \/ AsyncStop
    \/ running /\ \E si \in BOOLEAN : AsyncRequestRefresh("timer", si)
    \/ running /\ AsyncPoll("poll")
    \/ running /\ CoordHandleUnavailable
    \/ \E t \in DOMAIN task,
          o \in {"ok", "BleakError", "TimeoutError", "OtherError"} :
          CoordConnectReturns(t, o)
    \/ \E t \in DOMAIN task, ok \in BOOLEAN, c \in BOOLEAN :
          CoordStartNotifyReturns(t, ok, c)
    \/ \E t \in DOMAIN task, c \in BOOLEAN, f \in SUBSET Keys,
          o \in {"parsed", "unparsed", "timeout", "error"} :
          CoordCommandReturns(t, o, f, c)
    \/ \E t \in DOMAIN task, ok \in BOOLEAN, c \in BOOLEAN :
          CoordStopNotifyReturns(t, ok, c)
    \/ \E t \in DOMAIN task, ok \in BOOLEAN : CoordDisconnectReturns(t, ok)

SpecStartStop == InitStartStop /\ [][NextStartStop]_vars

----------------------------------------------------------------------------
(* RenogyBLEClient *)

\* "loop" is the _polling_loop task, "discovered" the task that the
\* discovery callback creates, "update" the host coordinator's
\* _async_update_data.
ClientTasks == {"loop", "discovered", "update"}

\* Where a task is when it runs no session: the loop sleeps.
Home(t) == IF t \in {"loop", "loop2"} THEN "sleep" ELSE "idle"

InitClient ==
    /\ InitOneDevice
    /\ task = [t \in ClientTasks |-> Idle]
    /\ listeners = <<>>

\* The retry schedule is followed with the loop and the host coordinator.
RetryTasks == {"loop", "update"}

InitRetry ==
    /\ InitOneDevice
    /\ task = [t \in RetryTasks |-> Idle]
    /\ listeners = <<>>

\* The polling loop alone.
InitLoop ==
    /\ InitOneDevice
    /\ task = [t \in {"loop"} |-> Idle]
    /\ listeners = <<>>

\* read_device_data without the check.
read_device_data_gate_open(d, t) == [skip |-> FALSE, dev |-> d]

\* The check that opens read_device_data: skip says that the attempt is
\* given up; should_retry_connection is evaluated only for a device that
\* is not available, and leaves its mark on the device.
read_device_data_gate(d, t) ==
    IF is_available(d)
    THEN [skip |-> FALSE, dev |-> d]
    ELSE [skip |-> ~should_retry_connection(d, t).ret,
          dev |-> should_retry_connection(d, t).dev]

\* "for device in devices: await self._process_device(device)" from the
\* device at the head of todo on: each device goes through the check of
\* read_device_data, up to the first that is connected to.  d is the
\* device that stays the current one when none is connected to.
RECURSIVE process_devices(_, _, _)
process_devices(todo, d, t) ==
    IF todo = <<>>
    THEN [connect |-> FALSE, dev |-> d, todo |-> <<>>]
    ELSE IF read_device_data_gate(Head(todo), t).skip
    THEN process_devices(Tail(todo), d, t)
    ELSE [connect |-> TRUE, dev |-> read_device_data_gate(Head(todo), t).dev,
          todo |-> Tail(todo)]

\* Where task t goes when _process_device returns for device d: to the
\* connect of the next device of the scan, if there is one, or home.
AfterProcessDevice(t, d) ==
    LET n == process_devices(task[t].todo, d, now)
    IN  [connect |-> n.connect, dev |-> n.dev,
         task |-> IF n.connect
                  THEN [At("connect") EXCEPT !.todo = n.todo]
                  ELSE At(Home(t))]

\* read_device_data up to its first await: the gate, then the BleakClient
\* is made and connect is called.
ReadDeviceDataBegin(t) ==
    LET g == read_device_data_gate(dev, now)
    IN  /\ dev' = g.dev
        /\ IF g.skip
           THEN /\ task' = [task EXCEPT ![t] = At(Home(t))]
                /\ Track(g.dev, FALSE)
                /\ event' = Plain("read_device_data:call", t, "False")
           ELSE /\ task' = [task EXCEPT ![t] = At("connect")]
                /\ Track(g.dev, TRUE)
                /\ event' = Plain("read_device_data:call", t, "pending")

StartPolling ==
    /\ ~running
    /\ running' = TRUE
    /\ scan_task' = "task"
    /\ task' = [task EXCEPT !["loop"] = At("sleep")]
    /\ event' = Plain("start_polling", NoTask, "None")
    /\ UNCHANGED <<now, client, call, gatt, dev, connection_lock, connection_in_progress,
                   last_update_success, data, listeners, discovered,
                   marked_at, retry_log, attempted>>

\* _async_discovered_device for an address seen for the first time.
DiscoveredDevice ==
    /\ running
    /\ ~discovered
    /\ task["discovered"].pc = "idle"
    /\ discovered' = TRUE
    /\ task' = [task EXCEPT !["discovered"] = At("created")]
    /\ event' = Plain("_async_discovered_device", NoTask, "None")
    /\ UNCHANGED <<now, client, call, gatt, scan_task, dev, connection_lock, connection_in_progress,
                   last_update_success, data, listeners, running,
                   marked_at, retry_log, attempted>>

\* The created task starts: _process_device.
ProcessDevice ==
    /\ task["discovered"].pc = "created"
    /\ ReadDeviceDataBegin("discovered")
    /\ UNCHANGED <<now, client, call, gatt, scan_task, connection_lock, connection_in_progress,
                   last_update_success, data, listeners, discovered,
                   running>>

\* One cycle of a caller of get_device_by_address: the device is known, or
\* the host has seen its advertisement (found) and the device is made.
GetAndProcess(t, found) ==
    IF discovered \/ found
    THEN /\ discovered' = TRUE
         /\ ReadDeviceDataBegin(t)
    ELSE /\ event' = Plain("get_device_by_address", t, "None")
         /\ UNCHANGED <<dev, task, discovered, marked_at, retry_log,
                        attempted>>

\* The devices that a scan returns, each as it may be after earlier
\* cycles: fresh, or unavailable since the start of the clock.
ScanDevices ==
    {RenogyBLEDevice,
     [RenogyBLEDevice EXCEPT !.failure_count = max_failures,
                             !.available = FALSE,
                             !.last_unavailable_time = 0]}
ScanResults ==
    UNION {[1..n -> ScanDevices] : n \in 0..MaxScanDevices}

\* One cycle of the loop of a client without device_address: the scan and
\* the devices it returned, up to the first await.
ScanLoopCycle(devices) ==
    /\ running
    /\ client.device_address = NoAddress
    /\ task["loop"].pc = "sleep"
    /\ LET n == process_devices(devices, dev, now)
       IN  /\ dev' = n.dev
           /\ task' = IF n.connect
                      THEN [task EXCEPT !["loop"] =
                               [At("connect") EXCEPT !.todo = n.todo]]
                      ELSE task
           /\ Track(n.dev, n.connect)
           /\ event' = Plain("scan_for_devices", "loop",
                             IF n.connect THEN "pending" ELSE "None")
    /\ discovered' = (discovered \/ devices # <<>>)
    /\ UNCHANGED <<now, client, call, gatt, scan_task, connection_lock,
                   connection_in_progress, last_update_success, data,
                   listeners, running>>

PollingLoopCycle(found) ==
    /\ running
    /\ client.device_address # NoAddress
    /\ task["loop"].pc = "sleep"
    /\ GetAndProcess("loop", found)
    /\ UNCHANGED <<now, client, call, gatt, scan_task, connection_lock, connection_in_progress,
                   last_update_success, data, listeners, running>>

AsyncUpdateData(found) ==
    /\ task["update"].pc = "idle"
    /\ GetAndProcess("update", found)
    /\ UNCHANGED <<now, client, call, gatt, scan_task, connection_lock, connection_in_progress,
                   last_update_success, data, listeners, running>>

\* The end of read_device_data and of _process_device: the finally clause
\* calls update_availability(success) and returns success, which also ends
\* any exception; after a success with parsed data the data callback runs
\* and its exception is caught.
ClientFinish(t, d, success, error) ==
    \E cb \in {"ok", "raised"} :
    LET d1 == update_availability(d, success, now)
        notify == callback_due(success, d1)
    IN  /\ d1.failure_count <= MaxFailureCount
        /\ notify \/ cb = "ok"
        /\ dev' = AfterProcessDevice(t, d1).dev
        /\ task' = [task EXCEPT ![t] = AfterProcessDevice(t, d1).task]
        /\ Track(dev', AfterProcessDevice(t, d1).connect)
        /\ event' = Ev("read_device_data:return", t,
                       IF success THEN "True" ELSE "False", <<success>>,
                       <<>>, IF notify THEN cb ELSE "none", FALSE,
                       task[t].any, error)
        /\ UNCHANGED <<now, client, call, gatt, scan_task, connection_lock, connection_in_progress,
                       last_update_success, data, listeners, discovered,
                       running>>

ClientFinally(t, d, success, error, is_connected) ==
    IF is_connected
    THEN /\ task' = [task EXCEPT ![t].pc = "disconnect", ![t].cmd = 0,
                                 ![t].success = success,
                                 ![t].error = error]
         /\ dev' = d
         /\ Track(d, FALSE)
         /\ event' = Plain("await", NoTask, "pending")
         /\ UNCHANGED <<now, client, call, gatt, scan_task, connection_lock, connection_in_progress,
                        last_update_success, data, listeners, discovered,
                        running>>
    ELSE ClientFinish(t, d, success, error)

\* connect returns with the client connected ("ok") or not connected, or
\* it raises.
ClientConnectReturns(t, outcome, is_connected) ==
    /\ task[t].pc = "connect"
    /\ IF outcome = "ok"
       THEN /\ is_connected
            /\ task' = [task EXCEPT ![t].pc = "start_notify"]
            /\ event' = Plain("await", NoTask, "pending")
            /\ UNCHANGED <<now, client, call, gatt, scan_task, dev, connection_lock,
                           connection_in_progress, last_update_success,
                           data, listeners, discovered,
                           marked_at, retry_log, attempted, running>>
       ELSE IF outcome = "not_connected"
       THEN ~is_connected /\ ClientFinish(t, dev, FALSE, FALSE)
       ELSE ClientFinally(t, dev, FALSE, TRUE, is_connected)

ClientStartNotifyReturns(t, ok, is_connected) ==
    /\ task[t].pc = "start_notify"
    /\ IF ok
       THEN /\ is_connected
            /\ task' = [task EXCEPT ![t].pc = "command", ![t].cmd = 1]
            /\ event' = Plain("await", NoTask, "pending")
            /\ UNCHANGED <<now, client, call, gatt, scan_task, dev, connection_lock,
                           connection_in_progress, last_update_success,
                           data, listeners, discovered,
                           marked_at, retry_log, attempted, running>>
       ELSE ClientFinally(t, dev, FALSE, TRUE, is_connected)

ClientCommandReturns(t, outcome, fields, is_connected) ==
    /\ task[t].pc = "command"
    /\ IF outcome = "error"
       THEN fields = {} /\ ClientFinally(t, dev, FALSE, TRUE, is_connected)
       ELSE /\ is_connected
            /\ (outcome = "parsed") = (fields # {})
            /\ dev' = IF outcome = "parsed"
                      THEN update_parsed_data(dev, SessionFrame, TRUE,
                                              SessionParse(fields)).dev
                      ELSE dev
            /\ task' = [task EXCEPT
                   ![t].any = @ \/ outcome = "parsed",
                   ![t].pc = IF task[t].cmd < NumCommands
                             THEN "command" ELSE "stop_notify",
                   ![t].cmd = IF task[t].cmd < NumCommands
                              THEN @ + 1 ELSE 0]
            /\ event' = Plain("await", NoTask, "pending")
            /\ UNCHANGED <<now, client, call, gatt, scan_task, connection_lock, connection_in_progress,
                           last_update_success, data, listeners,
                           discovered, marked_at, retry_log, attempted,
                           running>>

ClientStopNotifyReturns(t, ok, is_connected) ==
    /\ task[t].pc = "stop_notify"
    /\ ClientFinally(t, dev, ok /\ task[t].any, ~ok, is_connected)

ClientDisconnectReturns(t, ok) ==
    /\ task[t].pc = "disconnect"
    /\ ClientFinish(t, dev, task[t].success, task[t].error \/ ~ok)

\* _unavailable_callback, registered when the device is made.
ClientUnavailableCallback ==
    /\ discovered
    /\ dev.failure_count < MaxFailureCount
    /\ dev' = update_availability(dev, FALSE, now)
    /\ Track(dev', FALSE)
    /\ event' = Ev("_unavailable_callback", NoTask, "None", <<FALSE>>,
                   <<>>, "none", FALSE, FALSE, FALSE)
    /\ UNCHANGED <<now, client, call, gatt, scan_task, task, connection_lock, connection_in_progress,
                   last_update_success, data, listeners, discovered,
                   running>>

ClientSession ==
    \/ \E t \in DOMAIN task, c \in BOOLEAN,
          o \in {"ok", "not_connected", "error"} :
          ClientConnectReturns(t, o, c)
    \/ \E t \in DOMAIN task, ok \in BOOLEAN, c \in BOOLEAN :
          ClientStartNotifyReturns(t, ok, c)
    \/ \E t \in DOMAIN task, c \in BOOLEAN, f \in SUBSET Keys,
          o \in {"parsed", "unparsed", "timeout", "error"} :
          ClientCommandReturns(t, o, f, c)
    \/ \E t \in DOMAIN task, ok \in BOOLEAN, c \in BOOLEAN :
          ClientStopNotifyReturns(t, ok, c)
    \/ \E t \in DOMAIN task, ok \in BOOLEAN : ClientDisconnectReturns(t, ok)
    \/ ClientUnavailableCallback

NextClient ==
    \/ ClientSession
    \/ StartPolling
    \/ DiscoveredDevice
    \/ ProcessDevice
    \/ \E found \in BOOLEAN : PollingLoopCycle(found)
    \/ \E found \in BOOLEAN : AsyncUpdateData(found)

NextRetry ==
    \/ ClientSession
    \/ StartPolling
    \/ \E found \in BOOLEAN : PollingLoopCycle(found)
    \/ \E found \in BOOLEAN : AsyncUpdateData(found)
    \/ Tick(MaxTime)

SpecClient == InitClient /\ [][NextClient]_vars

SpecRetry == InitRetry /\ [][NextRetry]_vars

\* The polling loop alone, kept running: the event loop runs every task
\* that is ready, every transport call returns or raises, the sleep ends
\* and the clock goes on.
NextLoop ==
    \/ ClientSession
    \/ StartPolling
    \/ \E found \in BOOLEAN : PollingLoopCycle(found)
    \/ Tick(MaxTime)

SpecLoop ==
    /\ InitLoop
    /\ [][NextLoop]_vars
    /\ WF_vars(ClientSession)
    /\ WF_vars(StartPolling)
    /\ WF_vars(\E found \in BOOLEAN : PollingLoopCycle(found))
    /\ WF_vars(Tick(MaxTime))

----------------------------------------------------------------------------------------------------------------------------------------
(* Stopping the client.  "stop" is the task that calls stop_polling; the   *)
(* host sets an entry up and unloads it one after the other, so            *)
(* start_polling does not run while stop_polling waits.                    *)

StopTasks == {"loop", "stop"}

InitStop ==
    /\ InitOneDevice
    /\ task = [t \in StopTasks |-> Idle]
    /\ listeners = <<>>

Ended(t) == task[t].pc \in {"done", "cancelled"}

\* stop_polling that leaves _running as it is.
StopPolling_LeavesRunning ==
    /\ task["stop"].pc \in {"idle", "returned"}
    /\ running
    /\ scan_task # "None"
    /\ running' = running
    /\ scan_task' = IF Ended("loop") THEN scan_task ELSE "cancelling"
    /\ task' = [task EXCEPT !["stop"] = At("await_scan_task")]
    /\ event' = Plain("stop_polling", "stop", "pending")
    /\ UNCHANGED <<now, client, call, gatt, dev, connection_lock, connection_in_progress,
                   last_update_success, data, listeners, discovered,
                   marked_at, retry_log, attempted>>

\* stop_polling up to "await self._scan_task": on a client that is not
\* running it returns at once; otherwise _running is cleared and the
\* polling task is cancelled.
StopPolling ==
    /\ task["stop"].pc \in {"idle", "returned"}
    /\ IF ~running
       THEN /\ event' = Plain("stop_polling", "stop", "skipped")
            /\ UNCHANGED <<running, scan_task, task>>
       ELSE /\ running' = FALSE
            /\ IF scan_task = "None"
               THEN /\ task' = [task EXCEPT !["stop"] = At("returned")]
                    /\ event' = Plain("stop_polling:return", "stop", "None")
                    /\ UNCHANGED scan_task
               ELSE /\ scan_task' = IF Ended("loop") THEN scan_task
                                    ELSE "cancelling"
                    /\ task' = [task EXCEPT
                                   !["stop"] = At("await_scan_task")]
                    /\ event' = Plain("stop_polling", "stop", "pending")
    /\ UNCHANGED <<now, client, call, gatt, dev, connection_lock, connection_in_progress,
                   last_update_success, data, listeners, discovered,
                   marked_at, retry_log, attempted>>

\* The polling task resumes with CancelledError at the await where it was
\* suspended.  In the sleep of the loop, and in the disconnect of the
\* finally clause, the error leaves the task.  At an await inside the try
\* of read_device_data no "except Exception" catches it; the finally
\* clause disconnects a connected client, calls update_availability(False)
\* and returns, which ends the error: _process_device and the loop go on.
CancelledErrorRaised(is_connected) ==
    LET pc == task["loop"].pc
        d1 == update_availability(dev, FALSE, now)
    IN  /\ scan_task = "cancelling"
        /\ scan_task' = "task"
        /\ IF pc \in {"connect", "start_notify", "command", "stop_notify"}
           THEN IF is_connected
                THEN /\ task' = [task EXCEPT !["loop"].pc = "disconnect",
                                             !["loop"].cmd = 0,
                                             !["loop"].success = FALSE]
                     /\ event' = Plain("await", NoTask, "pending")
                     /\ UNCHANGED <<dev, marked_at, retry_log, attempted>>
                ELSE /\ d1.failure_count <= MaxFailureCount
                     /\ dev' = AfterProcessDevice("loop", d1).dev
                     /\ task' = [task EXCEPT !["loop"] =
                                     AfterProcessDevice("loop", d1).task]
                     /\ Track(dev', AfterProcessDevice("loop", d1).connect)
                     /\ event' = Ev("read_device_data:return", "loop",
                                    "False", <<FALSE>>, <<>>, "none", FALSE,
                                    task["loop"].any, task["loop"].error)
           ELSE /\ ~is_connected
                /\ task' = [task EXCEPT !["loop"] = At("cancelled")]
                /\ event' = Plain("_polling_loop", "loop", "cancelled")
                /\ UNCHANGED <<dev, marked_at, retry_log, attempted>>
        /\ UNCHANGED <<now, client, call, gatt, connection_lock, connection_in_progress,
                       last_update_success, data, listeners, discovered,
                       running>>

\* The sleep of the loop ends and "while self._running" is false.
PollingLoopExit ==
    /\ ~running
    /\ scan_task = "task"
    /\ task["loop"].pc = "sleep"
    /\ task' = [task EXCEPT !["loop"] = At("done")]
    /\ event' = Plain("_polling_loop", "loop", "None")
    /\ UNCHANGED <<now, client, call, gatt, scan_task, dev, connection_lock,
                   connection_in_progress, last_update_success, data,
                   listeners, discovered, running, marked_at, retry_log,
                   attempted>>

\* "await self._scan_task" is over, with CancelledError or without:
\* _scan_task = None and stop_polling returns.
StopPollingReturns ==
    /\ task["stop"].pc = "await_scan_task"
    /\ Ended("loop")
    /\ scan_task' = "None"
    /\ task' = [task EXCEPT !["stop"] = At("returned")]
    /\ event' = Plain("stop_polling:return", "stop", "None")
    /\ UNCHANGED <<now, client, call, gatt, dev, connection_lock, connection_in_progress,
                   last_update_success, data, listeners, discovered,
                   running, marked_at, retry_log, attempted>>

\* The awaits of the loop's session return or raise, unless the task has
\* been cancelled: then its next step is CancelledErrorRaised.
LoopSession ==
    /\ scan_task # "cancelling"
    /\ \/ \E c \in BOOLEAN, o \in {"ok", "not_connected", "error"} :
             ClientConnectReturns("loop", o, c)
       \/ \E ok \in BOOLEAN, c \in BOOLEAN :
             ClientStartNotifyReturns("loop", ok, c)
       \/ \E c \in BOOLEAN, f \in SUBSET Keys,
             o \in {"parsed", "unparsed", "timeout", "error"} :
             ClientCommandReturns("loop", o, f, c)
       \/ \E ok \in BOOLEAN, c \in BOOLEAN :
             ClientStopNotifyReturns("loop", ok, c)
       \/ \E ok \in BOOLEAN : ClientDisconnectReturns("loop", ok)

NextStop ==
    \/ LoopSession
    \/ task["stop"].pc # "await_scan_task" /\ StartPolling
    \/ \E found \in BOOLEAN : PollingLoopCycle(found)
    \/ StopPolling
    \/ \E c \in BOOLEAN : CancelledErrorRaised(c)
    \/ PollingLoopExit
    \/ StopPollingReturns
    \/ Tick(MaxTime)

\* The event loop runs every task that is ready, every transport call
\* returns or raises, and the sleep of the loop ends.
SpecStop ==
    /\ InitStop
    /\ [][NextStop]_vars
    /\ WF_vars(LoopSession)
    /\ WF_vars(\E c \in BOOLEAN : CancelledErrorRaised(c))
    /\ WF_vars(PollingLoopExit)
    /\ WF_vars(StopPollingReturns)

\* The same for a client of either kind: with a device_address, or
\* scanning for every Renogy device.
InitScanStop ==
    /\ InitShared
    /\ \E device_address \in {NoAddress, 1} :
          client = RenogyBLEClient(device_address)
    /\ task = [t \in StopTasks |-> Idle]
    /\ listeners = <<>>

NextScanStop ==
    \/ LoopSession
    \/ task["stop"].pc # "await_scan_task" /\ StartPolling
    \/ \E found \in BOOLEAN : PollingLoopCycle(found)
    \/ \E devices \in ScanResults : ScanLoopCycle(devices)
    \/ StopPolling
    \/ \E c \in BOOLEAN : CancelledErrorRaised(c)
    \/ PollingLoopExit
    \/ StopPollingReturns
    \/ Tick(MaxTime)

SpecScanStop == InitScanStop /\ [][NextScanStop]_vars

----------------------------------------------------------------------------
(* start_polling and stop_polling called in any order, also start_polling *)
(* while stop_polling waits for the task it has cancelled.  Every         *)
(* create_task makes a new task: "loop" and "loop2" are the _polling_loop  *)
(* tasks, a name being taken again when its task has ended and nothing     *)
(* refers to it.  Here scan_task is "None" or the name of the task that    *)
(* _scan_task refers to, and call.args holds the task that stop_polling    *)
(* is waiting for.                                                         *)

LoopTasks == {"loop", "loop2"}
RestartTasks == LoopTasks \cup {"stop"}

InitRestart ==
    /\ InitOneDevice
    /\ task = [t \in RestartTasks |-> Idle]
    /\ listeners = <<>>

\* The task has been created and has not ended.
Alive(t) == task[t].pc \notin {"idle", "done", "cancelled"}

Awaited == IF task["stop"].pc = "await_scan_task" THEN call.args ELSE <<>>

start_polling ==
    /\ IF running
       THEN /\ event' = Plain("start_polling", NoTask, "skipped")
            /\ UNCHANGED <<running, scan_task, task>>
       ELSE \E t \in LoopTasks :
            /\ ~Alive(t)
            /\ scan_task # t
            /\ Awaited # <<t>>
            /\ running' = TRUE
            /\ scan_task' = t
            /\ task' = [task EXCEPT ![t] = At("sleep")]
            /\ event' = Plain("start_polling", t, "None")
    /\ UNCHANGED <<now, client, call, gatt, dev, connection_lock,
                   connection_in_progress, last_update_success, data,
                   listeners, discovered, marked_at, retry_log, attempted>>

\* stop_polling up to "await self._scan_task".
stop_polling ==
    /\ task["stop"].pc \in {"idle", "returned"}
    /\ IF ~running
       THEN /\ event' = Plain("stop_polling", "stop", "skipped")
            /\ UNCHANGED <<running, scan_task, task, call>>
       ELSE /\ running' = FALSE
            /\ IF scan_task = "None"
               THEN /\ task' = [task EXCEPT !["stop"] = At("returned")]
                    /\ event' = Plain("stop_polling:return", "stop", "None")
                    /\ UNCHANGED <<scan_task, call>>
               ELSE /\ task' = [task EXCEPT
                                   !["stop"] = At("await_scan_task"),
                                   ![scan_task].cancel = Alive(scan_task)]
                    /\ call' = [op |-> "stop_polling",
                                args |-> <<scan_task>>, ret |-> <<>>]
                    /\ event' = Plain("stop_polling", "stop", "pending")
                    /\ UNCHANGED scan_task
    /\ UNCHANGED <<now, client, gatt, dev, connection_lock,
                   connection_in_progress, last_update_success, data,
                   listeners, discovered, marked_at, retry_log, attempted>>

\* The awaited task has ended: _scan_task = None, whatever it refers to
\* by now, and stop_polling returns.
stop_polling_resumes ==
    /\ task["stop"].pc = "await_scan_task"
    /\ Ended(call.args[1])
    /\ scan_task' = "None"
    /\ task' = [task EXCEPT !["stop"] = At("returned")]
    /\ event' = Plain("stop_polling:return", "stop", "None")
    /\ UNCHANGED <<now, client, call, gatt, dev, connection_lock,
                   connection_in_progress, last_update_success, data,
                   listeners, discovered, running, marked_at, retry_log,
                   attempted>>

\* The sleep of task t ends, "while self._running" is true and a cycle
\* begins.
polling_loop_cycle(t, found) ==
    /\ running
    /\ task[t].pc = "sleep"
    /\ ~task[t].cancel
    /\ GetAndProcess(t, found)
    /\ UNCHANGED <<now, client, call, gatt, scan_task, connection_lock,
                   connection_in_progress, last_update_success, data,
                   listeners, running>>

\* The sleep of task t ends and "while self._running" is false.
polling_loop_exit(t) ==
    /\ ~running
    /\ task[t].pc = "sleep"
    /\ ~task[t].cancel
    /\ task' = [task EXCEPT ![t] = At("done")]
    /\ event' = Plain("_polling_loop", t, "None")
    /\ UNCHANGED <<now, client, call, gatt, scan_task, dev, connection_lock,
                   connection_in_progress, last_update_success, data,
                   listeners, discovered, running, marked_at, retry_log,
                   attempted>>

\* Task t resumes with CancelledError, as in CancelledErrorRaised.
polling_loop_cancelled(t, is_connected) ==
    LET pc == task[t].pc
        d1 == update_availability(dev, FALSE, now)
    IN  /\ task[t].cancel
        /\ IF pc \in {"connect", "start_notify", "command", "stop_notify"}
           THEN IF is_connected
                THEN /\ task' = [task EXCEPT ![t].pc = "disconnect",
                                             ![t].cmd = 0,
                                             ![t].success = FALSE,
                                             ![t].cancel = FALSE]
                     /\ event' = Plain("await", NoTask, "pending")
                     /\ UNCHANGED <<dev, marked_at, retry_log, attempted>>
                ELSE /\ d1.failure_count <= MaxFailureCount
                     /\ dev' = AfterProcessDevice(t, d1).dev
                     /\ task' = [task EXCEPT ![t] =
                                     AfterProcessDevice(t, d1).task]
                     /\ Track(dev', AfterProcessDevice(t, d1).connect)
                     /\ event' = Ev("read_device_data:return", t,
                                    "False", <<FALSE>>, <<>>, "none", FALSE,
                                    task[t].any, task[t].error)
           ELSE /\ ~is_connected
                /\ task' = [task EXCEPT ![t] = At("cancelled")]
                /\ event' = Plain("_polling_loop", t, "cancelled")
                /\ UNCHANGED <<dev, marked_at, retry_log, attempted>>
        /\ UNCHANGED <<now, client, call, gatt, scan_task, connection_lock,
                       connection_in_progress, last_update_success, data,
                       listeners, discovered, running>>

\* The awaits of the session of task t return or raise, unless the task
\* has been cancelled.
polling_loop_session(t) ==
    /\ ~task[t].cancel
    /\ \/ \E c \in BOOLEAN, o \in {"ok", "not_connected", "error"} :
             ClientConnectReturns(t, o, c)
       \/ \E ok \in BOOLEAN, c \in BOOLEAN :
             ClientStartNotifyReturns(t, ok, c)
       \/ \E c \in BOOLEAN, f \in SUBSET Keys,
             o \in {"parsed", "unparsed", "timeout", "error"} :
             ClientCommandReturns(t, o, f, c)
       \/ \E ok \in BOOLEAN, c \in BOOLEAN :
             ClientStopNotifyReturns(t, ok, c)
       \/ \E ok \in BOOLEAN : ClientDisconnectReturns(t, ok)

NextRestart ==
    \/ start_polling
    \/ stop_polling
    \/ stop_polling_resumes
    \/ \E t \in LoopTasks, found \in BOOLEAN : polling_loop_cycle(t, found)
    \/ \E t \in LoopTasks : polling_loop_exit(t)
    \/ \E t \in LoopTasks, c \in BOOLEAN : polling_loop_cancelled(t, c)
    \/ \E t \in LoopTasks : polling_loop_session(t)

SpecRestart == InitRestart /\ [][NextRestart]_vars

----------------------------------------------------------------------------
(* update_parsed_data on its own: any sequence of responses handed to one  *)
(* device, whatever the decoder makes of each.                             *)

\* The responses: a frame of n bytes from the device address 0xFF, with
\* the function code of a read (3) or the same with the error bit (0x83).
FunctionCodes == {3, 131}

Frame(n, function_code) ==
    [i \in 1..n |-> IF i = 1 THEN 255 ELSE IF i = 2 THEN function_code ELSE 0]

RawData == {Frame(n, c) : n \in 0..MaxRawLen, c \in FunctionCodes}

FieldNames == {"battery_voltage", "pv_power"}
FieldValues == {"old", "new"}

\* The dicts over the field names.
Dicts == {f \in SUBSET (FieldNames \X FieldValues) :
             \A p, q \in f : p[1] = q[1] => p = q}

\* What the decoder may do.
ParseOutcomes == {[raises |-> TRUE, fields |-> {}]}
                 \cup {[raises |-> FALSE, fields |-> f] : f \in Dicts}

InitParse ==
    /\ InitCommon
    /\ task = <<>>
    /\ listeners = <<>>

UpdateParsedData(raw_data, parser_available, parse) ==
    LET r == update_parsed_data(dev, raw_data, parser_available, parse)
    IN  /\ dev' = r.dev
        /\ call' = [op |-> "update_parsed_data",
                    args |-> <<raw_data, parser_available, parse>>,
                    ret |-> <<r.ret, r.invoked>>]
        /\ UNCHANGED <<now, client, task, connection_lock, connection_in_progress,
                       last_update_success, data, listeners, discovered,
                       running, marked_at, retry_log, attempted, event,
                       scan_task, gatt>>

NextParse ==
    \E raw_data \in RawData, parser_available \in BOOLEAN,
       parse \in ParseOutcomes :
        UpdateParsedData(raw_data, parser_available, parse)

SpecParse == InitParse /\ [][NextParse]_vars

----------------------------------------------------------------------------
(* The scan interval: what each scheduler keeps of the configured value.   *)

min(a, b) == IF a <= b THEN a ELSE b
max(a, b) == IF a >= b THEN a ELSE b

\* RenogyBLEClient.__init__: self.scan_interval, the argument of the sleep
\* of the polling loop.
client_scan_interval(scan_interval) ==
    max(MIN_SCAN_INTERVAL, min(scan_interval, MAX_SCAN_INTERVAL))

\* RenogyActiveBluetoothCoordinator.__init__: self.scan_interval and
\* update_interval = timedelta(seconds=scan_interval), the period of the
\* interval timer.
coordinator_scan_interval(scan_interval) == scan_interval

ScanInputs == 0..MaxScanInput

\* An entry is configured with some scan_interval.
InitInterval ==
    /\ now = 0
    /\ dev = RenogyBLEDevice
    /\ task = <<>>
    /\ connection_lock = NoTask
    /\ connection_in_progress = FALSE
    /\ last_update_success = TRUE
    /\ data = {}
    /\ listeners = <<>>
    /\ discovered = FALSE
    /\ running = FALSE
    /\ marked_at = NoTime
    /\ retry_log = <<>>
    /\ attempted = FALSE
    /\ event = Plain("init", NoTask, "None")
    /\ scan_task = "None"
    /\ gatt = NoGatt
    /\ client = RenogyBLEClient(NoAddress)
    /\ \E scan_interval \in ScanInputs :
          call = [op |-> "scan_interval", args |-> <<scan_interval>>,
                  ret |-> <<>>]

Called(op, ret) ==
    /\ call' = [op |-> op, args |-> call.args, ret |-> ret]
    /\ UNCHANGED <<now, client, dev, task, connection_lock, connection_in_progress,
                   last_update_success, data, listeners, discovered,
                   running, marked_at, retry_log, attempted, event,
                   scan_task, gatt>>

ClientInit ==
    /\ call.op = "scan_interval"
    /\ Called("RenogyBLEClient", <<client_scan_interval(call.args[1])>>)

CoordinatorInit ==
    /\ call.op = "scan_interval"
    /\ Called("RenogyActiveBluetoothCoordinator",
              <<coordinator_scan_interval(call.args[1])>>)

NextInterval ==
    \/ ClientInit
    \/ CoordinatorInit

SpecInterval == InitInterval /\ [][NextInterval]_vars

----------------------------------------------------------------------------
(* The Modbus frame: modbus_crc and create_modbus_read_request.            *)

\* a ^ b on naturals
RECURSIVE Xor(_, _)
Xor(a, b) ==
    IF a = 0 THEN b
    ELSE IF b = 0 THEN a
    ELSE (((a % 2) + (b % 2)) % 2) + (2 * Xor(a \div 2, b \div 2))

\* The inner loop of modbus_crc, n rounds of it: "if crc & 0x0001: crc =
\* (crc >> 1) ^ 0xA001, else: crc >>= 1".
RECURSIVE crc_rounds(_, _)
crc_rounds(crc, n) ==
    IF n = 0 THEN crc
    ELSE IF crc % 2 = 1
    THEN crc_rounds(Xor(crc \div 2, 40961), n - 1)
    ELSE crc_rounds(crc \div 2, n - 1)

\* The outer loop, as the value of crc after the bytes of octets: it starts
\* at 0xFFFF, and each byte is added by "crc ^= pos" and the eight rounds.
RECURSIVE crc_loop(_)
crc_loop(octets) ==
    IF octets = <<>> THEN 65535
    ELSE crc_rounds(Xor(crc_loop(SubSeq(octets, 1, Len(octets) - 1)),
                        octets[Len(octets)]),
                    8)

\* modbus_crc that returns the high byte first.
modbus_crc_high_first(octets) ==
    LET crc == crc_loop(octets)
    IN  <<(crc \div 256) % 256, crc % 256>>

\* modbus_crc(data) -> (crc_low, crc_high); octets is its data
modbus_crc(octets) ==
    LET crc == crc_loop(octets)
    IN  <<crc % 256, (crc \div 256) % 256>>

\* create_modbus_read_request with the register sent low byte first.
create_modbus_read_request_low_first(device_id, function_code, register, word_count) ==
    LET frame == <<device_id, function_code, register % 256,
                   (register \div 256) % 256, (word_count \div 256) % 256,
                   word_count % 256>>
    IN  frame \o modbus_crc(frame)

create_modbus_read_request(device_id, function_code, register, word_count) ==
    LET frame == <<device_id, function_code, (register \div 256) % 256,
                   register % 256, (word_count \div 256) % 256,
                   word_count % 256>>
    IN  frame \o modbus_crc(frame)

\* The byte sequences handed to modbus_crc: up to MaxCrcLen bytes.
CrcBytes == {0, 1, 3, 34, 128, 255}

RECURSIVE SeqsUpTo(_, _)
SeqsUpTo(S, n) ==
    IF n = 0 THEN {<<>>}
    ELSE LET shorter == SeqsUpTo(S, n - 1)
         IN  shorter \cup {Append(q, b) :
                              q \in {r \in shorter : Len(r) = n - 1},
                              b \in S}

CrcInputs == SeqsUpTo(CrcBytes, MaxCrcLen)

\* The arguments of create_modbus_read_request: the device address used
\* (0xFF) beside others, the read function code, the registers and word
\* counts of COMMANDS and the ends of their ranges.
DeviceIds == {0, 1, 255}
RequestFunctionCodes == {0, 3, 255}
Registers == {0, 12, 26, 256, 57348, 65535}
WordCounts == {0, 1, 8, 34, 65535}

InitModbus ==
    /\ now = 0
    /\ dev = RenogyBLEDevice
    /\ task = <<>>
    /\ connection_lock = NoTask
    /\ connection_in_progress = FALSE
    /\ last_update_success = TRUE
    /\ data = {}
    /\ listeners = <<>>
    /\ discovered = FALSE
    /\ running = FALSE
    /\ marked_at = NoTime
    /\ retry_log = <<>>
    /\ attempted = FALSE
    /\ event = Plain("init", NoTask, "None")
    /\ scan_task = "None"
    /\ gatt = NoGatt
    /\ client = RenogyBLEClient(NoAddress)
    /\ \/ \E bytes \in CrcInputs :
             call = [op |-> "bytes", args |-> <<bytes>>, ret |-> <<>>]
       \/ \E device_id \in DeviceIds,
             function_code \in RequestFunctionCodes,
             register \in Registers, word_count \in WordCounts :
             call = [op |-> "request",
                     args |-> <<device_id, function_code, register,
                                word_count>>,
                     ret |-> <<>>]

ModbusCrc ==
    /\ call.op = "bytes"
    /\ Called("modbus_crc", modbus_crc(call.args[1]))

CreateModbusReadRequest ==
    /\ call.op = "request"
    /\ Called("create_modbus_read_request",
              create_modbus_read_request(call.args[1], call.args[2],
                                         call.args[3], call.args[4]))

NextModbus ==
    \/ ModbusCrc
    \/ CreateModbusReadRequest

SpecModbus == InitModbus /\ [][NextModbus]_vars

----------------------------------------------------------------------------
(* _needs_poll, the test that the base class makes before a poll.  Times   *)
(* are timestamps in seconds; last_poll is NoTime for None.                *)

\* _needs_poll that asks for more than scan_interval to have passed.
needs_poll_late(hass_running, connectable_device, in_progress, last_poll, timestamp, scan_interval) ==
    IF ~hass_running THEN FALSE
    ELSE IF ~connectable_device THEN FALSE
    ELSE IF in_progress THEN FALSE
    ELSE IF last_poll = NoTime THEN TRUE
    ELSE timestamp - last_poll > scan_interval

\* hass_running: self.hass.state == CoreState.running; connectable_device:
\* async_ble_device_from_address found one; in_progress:
\* self._connection_in_progress; timestamp: datetime.now().timestamp().
needs_poll(hass_running, connectable_device, in_progress, last_poll, timestamp, scan_interval) ==
    IF ~hass_running THEN FALSE
    ELSE IF ~connectable_device THEN FALSE
    ELSE IF in_progress THEN FALSE
    ELSE IF last_poll = NoTime THEN TRUE
    ELSE timestamp - last_poll >= scan_interval

LastPolls == {NoTime} \cup 0..MaxLastPoll
PollClock == 0..MaxPollClock
PollIntervals == {MIN_SCAN_INTERVAL, MIN_SCAN_INTERVAL + 1}

InitNeedsPoll ==
    /\ now = 0
    /\ dev = RenogyBLEDevice
    /\ task = <<>>
    /\ connection_lock = NoTask
    /\ connection_in_progress = FALSE
    /\ last_update_success = TRUE
    /\ data = {}
    /\ listeners = <<>>
    /\ discovered = FALSE
    /\ running = FALSE
    /\ marked_at = NoTime
    /\ retry_log = <<>>
    /\ attempted = FALSE
    /\ event = Plain("init", NoTask, "None")
    /\ scan_task = "None"
    /\ gatt = NoGatt
    /\ client = RenogyBLEClient(NoAddress)
    /\ \E hass_running \in BOOLEAN, connectable_device \in BOOLEAN,
          in_progress \in BOOLEAN, last_poll \in LastPolls,
          timestamp \in PollClock, scan_interval \in PollIntervals :
          /\ last_poll <= timestamp
          /\ call = [op |-> "poll_inputs",
                     args |-> <<hass_running, connectable_device,
                                in_progress, last_poll, timestamp,
                                scan_interval>>,
                     ret |-> <<>>]

NeedsPoll ==
    /\ call.op = "poll_inputs"
    /\ Called("_needs_poll",
              <<needs_poll(call.args[1], call.args[2], call.args[3],
                           call.args[4], call.args[5], call.args[6])>>)

NextNeedsPoll == NeedsPoll

SpecNeedsPoll == InitNeedsPoll /\ [][NextNeedsPoll]_vars

----------------------------------------------------------------------------
(* One coordinator session followed call by call: the notification        *)
(* handler, the buffer and the event, every write_gatt_char and every     *)
(* wait for a notification.  "poll" is the task of the poll_method; a     *)
(* task at "command" awaits write_gatt_char, a task at "wait" awaits      *)
(* wait_for(notification_event.wait(), MAX_NOTIFICATION_WAIT_TIME).       *)

InitSession ==
    /\ InitCommon
    /\ task = [t \in {"poll"} |-> Idle]
    /\ listeners = <<>>

GattCall(op, cmd) == [op |-> op, cmd |-> cmd]

\* The head of the for loop up to its first await: notification_data.clear(),
\* notification_event.clear(), then write_gatt_char is called with the
\* request of command cmd.
SendCommand(g, cmd, results) ==
    [notification_data |-> <<>>, notification_event |-> FALSE,
     is_connected |-> g.is_connected,
     calls |-> g.calls \o <<GattCall("clear", cmd), GattCall("write", cmd)>>,
     results |-> results]

\* establish_connection returns a connected client: the event and the
\* buffer of the session are made and start_notify is called.
SessionConnectReturns(outcome) ==
    IF outcome = "ok"
    THEN /\ task["poll"].pc = "connect"
         /\ task' = [task EXCEPT !["poll"].pc = "start_notify"]
         /\ gatt' = [NoGatt EXCEPT !.is_connected = TRUE]
         /\ event' = Plain("await", NoTask, "pending")
         /\ UNCHANGED <<now, client, call, scan_task, dev, connection_lock,
                        connection_in_progress, last_update_success, data,
                        listeners, discovered, marked_at, retry_log,
                        attempted, running>>
    ELSE CoordConnectReturns("poll", outcome)

\* The commands that the session has written so far.
Written(g) == {g.calls[i].cmd : i \in {j \in 1..Len(g.calls) :
                                          g.calls[j].op = "write"}}

\* notification_handler, called by the transport between two steps of the
\* session while the subscription stands.  The notification is the
\* device's answer to command c, one of the commands written so far; the
\* handler is given the bytes and nothing that names the command.
NotificationHandler(c) ==
    /\ task["poll"].pc \in {"command", "wait", "stop_notify"}
    /\ c \in Written(gatt)
    /\ Len(gatt.notification_data) < MaxChunks
    /\ gatt' = [gatt EXCEPT
                   !.notification_data = Append(@, c),
                   !.notification_event = TRUE]
    /\ event' = Plain("notification_handler", NoTask, "None")
    /\ UNCHANGED <<now, client, call, scan_task, dev, task, connection_lock,
                   connection_in_progress, last_update_success, data,
                   listeners, discovered, marked_at, retry_log, attempted,
                   running>>

\* The link to the device is lost: client.is_connected turns False, and
\* the calls made on the client from now on raise.
LinkLost ==
    /\ task["poll"].pc \in {"start_notify", "command", "wait",
                            "stop_notify", "disconnect",
                            "disconnect_cancelled"}
    /\ gatt.is_connected
    /\ gatt' = [gatt EXCEPT !.is_connected = FALSE]
    /\ event' = Plain("link_lost", NoTask, "None")
    /\ UNCHANGED <<now, client, call, scan_task, dev, task, connection_lock,
                   connection_in_progress, last_update_success, data,
                   listeners, discovered, marked_at, retry_log, attempted,
                   running>>

SessionStartNotifyReturns(ok, is_connected) ==
    /\ task["poll"].pc = "start_notify"
    /\ IF ok
       THEN /\ is_connected
            /\ task' = [task EXCEPT !["poll"].pc = "command",
                                    !["poll"].cmd = 1]
            /\ gatt' = SendCommand(gatt, 1, <<>>)
            /\ event' = Plain("await", NoTask, "pending")
            /\ UNCHANGED <<now, client, call, scan_task, dev, connection_lock,
                           connection_in_progress, last_update_success,
                           data, listeners, discovered, marked_at,
                           retry_log, attempted, running>>
       ELSE CoordFinally("poll", dev, FALSE, TRUE, is_connected)

\* write_gatt_char returns and the wait for the notification begins, or it
\* raises.
SessionWriteReturns(ok, is_connected) ==
    /\ task["poll"].pc = "command"
    /\ IF ok
       THEN /\ is_connected
            /\ task' = [task EXCEPT !["poll"].pc = "wait"]
            /\ event' = Plain("await", NoTask, "pending")
            /\ UNCHANGED <<now, client, call, gatt, scan_task, dev,
                           connection_lock, connection_in_progress,
                           last_update_success, data, listeners,
                           discovered, marked_at, retry_log, attempted,
                           running>>
       ELSE CoordFinally("poll", dev, FALSE, TRUE, is_connected)

\* The rest of the loop body after the wait, with the head of the next
\* pass: the command is done with result (and parsed says that
\* update_parsed_data returned True); the next command is sent, or after
\* the last one stop_notify is called.
NextCommand(d, result) ==
    LET cmd == task["poll"].cmd
        results == Append(gatt.results, result)
    IN  /\ dev' = d
        /\ IF cmd < NumCommands
           THEN /\ task' = [task EXCEPT
                               !["poll"].pc = "command",
                               !["poll"].cmd = cmd + 1,
                               !["poll"].any = @ \/ result = "parsed"]
                /\ gatt' = SendCommand(gatt, cmd + 1, results)
           ELSE /\ task' = [task EXCEPT
                               !["poll"].pc = "stop_notify",
                               !["poll"].cmd = 0,
                               !["poll"].any = @ \/ result = "parsed"]
                /\ gatt' = [gatt EXCEPT !.results = results]
        /\ event' = Plain("await", NoTask, "pending")
        /\ UNCHANGED <<now, client, call, scan_task, connection_lock,
                       connection_in_progress, last_update_success, data,
                       listeners, discovered, marked_at, retry_log,
                       attempted, running>>

\* The wait without a timeout: it ends only when the event is set.
SessionWaitReturns_NoTimeout(timeout, fields) ==
    /\ task["poll"].pc = "wait"
    /\ ~timeout
    /\ gatt.notification_event
    /\ LET result_data == IF gatt.notification_data = <<>>
                          THEN <<>> ELSE SessionFrame
           r == update_parsed_data(dev, result_data, TRUE,
                                   SessionParse(fields))
       IN  NextCommand(r.dev, IF r.ret THEN "parsed" ELSE "unparsed")

\* The wait in which a timeout ends the for loop.
SessionWaitReturns_TimeoutBreaks(timeout, fields) ==
    /\ task["poll"].pc = "wait"
    /\ IF timeout
       THEN /\ ~gatt.notification_event
            /\ fields = {}
            /\ dev' = dev
            /\ task' = [task EXCEPT !["poll"].pc = "stop_notify",
                                    !["poll"].cmd = 0]
            /\ gatt' = [gatt EXCEPT !.results = Append(@, "timeout")]
            /\ event' = Plain("await", NoTask, "pending")
            /\ UNCHANGED <<now, client, call, scan_task, connection_lock,
                           connection_in_progress, last_update_success,
                           data, listeners, discovered, marked_at,
                           retry_log, attempted, running>>
       ELSE /\ gatt.notification_event
            /\ LET result_data == IF gatt.notification_data = <<>>
                                  THEN <<>> ELSE SessionFrame
                   r == update_parsed_data(dev, result_data, TRUE,
                                           SessionParse(fields))
               IN  NextCommand(r.dev,
                               IF r.ret THEN "parsed" ELSE "unparsed")

\* wait_for returns because the event is set, and the buffer is handed to
\* update_parsed_data (fields is what the decoder finds in it); or it
\* raises TimeoutError, which "continue" answers.
SessionWaitReturns(timeout, fields) ==
    /\ task["poll"].pc = "wait"
    /\ IF timeout
       THEN /\ ~gatt.notification_event
            /\ fields = {}
            /\ NextCommand(dev, "timeout")
       ELSE /\ gatt.notification_event
            /\ LET result_data == IF gatt.notification_data = <<>>
                                  THEN <<>> ELSE SessionFrame
                   r == update_parsed_data(dev, result_data, TRUE,
                                           SessionParse(fields))
               IN  NextCommand(r.dev,
                               IF r.ret THEN "parsed" ELSE "unparsed")

\* The task is left with CancelledError: no except clause of the session
\* names it; "finally" clears the flag and "async with" releases the lock.
CancelledLeaves(t, flag) ==
    /\ connection_lock' = NoTask
    /\ connection_in_progress' = flag
    /\ task' = [task EXCEPT ![t] = Idle]
    /\ event' = Plain("_read_device_data:cancelled", t, "raised")
    /\ UNCHANGED <<now, client, call, gatt, scan_task, dev, last_update_success,
                   data, listeners, discovered, marked_at, retry_log,
                   attempted, running>>

\* The cancellation of a session whose flag is not cleared on the way out.
SessionCancelled_FlagLeft(is_connected) ==
    /\ task["poll"].pc \in {"connect", "start_notify", "command", "wait",
                            "stop_notify", "disconnect",
                            "disconnect_cancelled"}
    /\ CancelledLeaves("poll", connection_in_progress)

\* The task of the session is cancelled: CancelledError is raised at the
\* await where it is suspended.  Inside the inner try the finally clause
\* first disconnects a client that is still connected (one more await,
\* after which the error goes on).
SessionCancelled(is_connected) ==
    /\ task["poll"].pc \in {"connect", "start_notify", "command", "wait",
                            "stop_notify", "disconnect",
                            "disconnect_cancelled"}
    /\ IF task["poll"].pc \in {"start_notify", "command", "wait",
                               "stop_notify"} /\ is_connected
       THEN /\ task' = [task EXCEPT !["poll"].pc = "disconnect_cancelled",
                                    !["poll"].cmd = 0]
            /\ event' = Plain("await", NoTask, "pending")
            /\ UNCHANGED <<now, client, call, gatt, scan_task, dev,
                           connection_lock, connection_in_progress,
                           last_update_success, data, listeners,
                           discovered, marked_at, retry_log, attempted,
                           running>>
       ELSE CancelledLeaves("poll", FALSE)

\* The disconnect of a cancelled session returns or raises.
SessionCancelledDisconnectReturns(ok) ==
    /\ task["poll"].pc = "disconnect_cancelled"
    /\ CancelledLeaves("poll", FALSE)

\* The calls of the transport return or raise, and the timeout of a wait
\* expires.  The decoder finds nothing in a response, or all the keys.
SessionStep ==
    \/ \E o \in {"ok", "BleakError", "TimeoutError", "OtherError"} :
          SessionConnectReturns(o)
    \/ \E ok \in BOOLEAN : SessionStartNotifyReturns(ok, gatt.is_connected)
    \/ \E ok \in BOOLEAN : SessionWriteReturns(ok, gatt.is_connected)
    \/ \E timeout \in BOOLEAN, f \in {{}, Keys} :
          SessionWaitReturns(timeout, f)
    \/ \E ok \in BOOLEAN :
          CoordStopNotifyReturns("poll", ok, gatt.is_connected)
    \/ \E ok \in BOOLEAN : CoordDisconnectReturns("poll", ok)
    \/ \E ok \in BOOLEAN : SessionCancelledDisconnectReturns(ok)

\* The session that is followed is the first one whose connect succeeds.
NextSession ==
    \/ gatt = NoGatt /\ AsyncPoll("poll")
    \/ \E c \in Commands : NotificationHandler(c)
    \/ LinkLost
    \/ SessionCancelled(gatt.is_connected)
    \/ SessionStep

\* Every transport call returns or raises and every timeout expires; the
\* device may stay silent and the base class may stop polling.
SpecSession == InitSession /\ [][NextSession]_vars /\ WF_vars(SessionStep)

----------------------------------------------------------------------------
(* should_retry_connection on its own: one evaluation on any device, as   *)
(* the fields of the device may have been set by any caller.              *)

Clock == {t \in 0..MaxTime : t % ClockStep = 0}

DeviceStates ==
    [failure_count : 0..MaxFailureCount, available : BOOLEAN,
     last_unavailable_time : {NoTime} \cup Clock, parsed_data : {{}}]

InitShouldRetry ==
    /\ InitCommon
    /\ task = <<>>
    /\ listeners = <<>>

\* The fields of the device are set from outside, as the tests do.
SetDevice(d, t) ==
    /\ event.op = "init"
    /\ d.last_unavailable_time <= t
    /\ dev' = d
    /\ now' = t
    /\ event' = Plain("set", NoTask, "None")
    /\ UNCHANGED <<client, task, connection_lock, connection_in_progress,
                   last_update_success, data, listeners, discovered,
                   running, marked_at, retry_log, attempted, call,
                   scan_task, gatt>>

NextShouldRetry ==
    \/ \E d \in DeviceStates, t \in Clock : SetDevice(d, t)
    \/ event.op # "init" /\ DeviceShouldRetryConnection
    \/ event.op # "init" /\ Tick(MaxTime)

SpecShouldRetry == InitShouldRetry /\ [][NextShouldRetry]_vars

----------------------------------------------------------------------------
(* Discovery in RenogyBLEClient: which devices get into                   *)
(* discovered_devices.  A name is None or a string, written as the        *)
(* sequence of its characters; an address is a number.                    *)

Addresses == 1..NumAddresses

NoName == [is_none |-> TRUE, chars |-> <<>>]
Name(chars) == [is_none |-> FALSE, chars |-> chars]

RENOGY_BT_PREFIX == <<"B", "T", "-", "T", "H", "-">>

\* str.startswith
startswith(chars, prefix) ==
    /\ Len(chars) >= Len(prefix)
    /\ SubSeq(chars, 1, Len(prefix)) = prefix

\* The test of the name that accepts every advertisement with a name.
renogy_name_any(name) == ~name.is_none /\ name.chars # <<>>

\* "service_info.name and service_info.name.startswith(RENOGY_BT_PREFIX)"
renogy_name(name) ==
    /\ ~name.is_none
    /\ name.chars # <<>>
    /\ startswith(name.chars, RENOGY_BT_PREFIX)

\* The names that advertisements carry in the model.
Names == {NoName, Name(<<>>), Name(RENOGY_BT_PREFIX),
          Name(RENOGY_BT_PREFIX \o <<"1">>),
          Name(<<"X">> \o RENOGY_BT_PREFIX), Name(<<"B", "T", "-">>)}

\* What the host knows of the devices around: per address the name of the
\* last advertisement, if there was one, and whether a connectable
\* BLEDevice is to be had for the address.
NotSeen == [is_none |-> TRUE, chars |-> <<"not seen">>]
Views == {[name |-> NotSeen, connectable |-> FALSE]}
             \cup [name : Names, connectable : BOOLEAN]
HostViews == [Addresses -> Views]

InitDiscovery ==
    /\ now = 0
    /\ dev = RenogyBLEDevice
    /\ task = <<>>
    /\ connection_lock = NoTask
    /\ connection_in_progress = FALSE
    /\ last_update_success = TRUE
    /\ data = {}
    /\ listeners = <<>>
    /\ discovered = FALSE
    /\ running = FALSE
    /\ marked_at = NoTime
    /\ retry_log = <<>>
    /\ attempted = FALSE
    /\ event = Plain("init", NoTask, "None")
    /\ call = [op |-> "none", args |-> <<>>, ret |-> <<>>]
    /\ scan_task = "None"
    /\ gatt = NoGatt
    /\ \E device_address \in {NoAddress} \cup Addresses :
          client = RenogyBLEClient(device_address)

AddressesOf(devices) == {e[1] : e \in devices}

\* One pass of the loop of scan_for_devices over a service_info: c is the
\* client before it, the result the client after it.
scan_one(c, address, view) ==
    IF ~renogy_name(view.name) THEN c
    ELSE IF c.device_address # NoAddress /\ address # c.device_address
    THEN c
    ELSE IF address \in AddressesOf(c.discovered_devices) THEN c
    ELSE IF ~view.connectable THEN c
    ELSE [c EXCEPT !.discovered_devices = @ \cup {<<address, view.name>>},
                   !.discovered_addresses = @ \cup {address}]

\* Whether the pass appends the device of the address to renogy_devices.
scan_returns(c, address, view) ==
    /\ renogy_name(view.name)
    /\ ~(c.device_address # NoAddress /\ address # c.device_address)
    /\ address \in AddressesOf(scan_one(c, address, view).discovered_devices)

RECURSIVE scan_loop(_, _, _)
scan_loop(c, todo, views) ==
    IF todo = {} THEN c
    ELSE LET address == CHOOSE a \in todo : \A b \in todo : a <= b
         IN  scan_loop(scan_one(c, address, views[address]),
                       todo \ {address}, views)

\* scan_for_devices over what the host has discovered.
ScanForDevices(views) ==
    LET seen == {a \in Addresses : views[a].name # NotSeen}
        c1 == scan_loop(client, seen, views)
    IN  /\ client' = c1
        /\ call' = [op |-> "scan_for_devices",
                    args |-> <<{a \in seen : views[a].connectable}>>,
                    ret |-> {a \in seen : scan_returns(client, a, views[a])}]
        /\ event' = Plain("scan_for_devices", NoTask, "None")
        /\ UNCHANGED <<now, dev, task, connection_lock,
                       connection_in_progress, last_update_success, data,
                       listeners, discovered, running, marked_at,
                       retry_log, attempted, scan_task, gatt>>

\* get_device_by_address(address): the known device, or one made from the
\* last service info of the address.
GetDeviceByAddress(address, view) ==
    LET known == address \in AddressesOf(client.discovered_devices)
        made == ~known /\ view.name # NotSeen /\ renogy_name(view.name)
                    /\ view.connectable
    IN  /\ client' = IF made
                     THEN [client EXCEPT
                              !.discovered_devices =
                                  @ \cup {<<address, view.name>>},
                              !.discovered_addresses = @ \cup {address}]
                     ELSE client
        /\ call' = [op |-> "get_device_by_address",
                    args |-> <<address>>,
                    ret |-> IF known \/ made THEN {address} ELSE {}]
        /\ event' = Plain("get_device_by_address", NoTask, "None")
        /\ UNCHANGED <<now, dev, task, connection_lock,
                       connection_in_progress, last_update_success, data,
                       listeners, discovered, running, marked_at,
                       retry_log, attempted, scan_task, gatt>>

\* _async_discovered_device(service_info, change); the task that it
\* creates for _process_device is not followed here.
AsyncDiscoveredDevice(address, view) ==
    LET accepted ==
            /\ ~(client.device_address # NoAddress
                    /\ address # client.device_address)
            /\ renogy_name(view.name)
            /\ address \notin client.discovered_addresses
            /\ view.connectable
    IN  /\ view.name # NotSeen
        /\ client' = IF accepted
                     THEN [client EXCEPT
                              !.discovered_devices =
                                  {e \in @ : e[1] # address}
                                      \cup {<<address, view.name>>},
                              !.discovered_addresses = @ \cup {address}]
                     ELSE client
        /\ call' = [op |-> "_async_discovered_device",
                    args |-> <<address>>,
                    ret |-> IF accepted THEN {address} ELSE {}]
        /\ event' = Plain("_async_discovered_device", NoTask,
                          IF accepted THEN "created" ELSE "None")
        /\ UNCHANGED <<now, dev, task, connection_lock,
                       connection_in_progress, last_update_success, data,
                       listeners, discovered, running, marked_at,
                       retry_log, attempted, scan_task, gatt>>

NextDiscovery ==
    \/ \E views \in HostViews : ScanForDevices(views)
    \/ \E a \in Addresses, v \in Views : GetDeviceByAddress(a, v)
    \/ \E a \in Addresses, v \in Views : AsyncDiscoveredDevice(a, v)

SpecDiscovery == InitDiscovery /\ [][NextDiscovery]_vars

----------------------------------------------------------------------------
(* Claims *)

Sessions == {t \in DOMAIN task : InSession(t)}

\* No task begins a transport connect in this step.
NoNewConnect == \A u \in DOMAIN task :
                    task'[u].pc = "connect" => task[u].pc = "connect"

Range(seq) == {seq[i] : i \in 1..Len(seq)}

\* The Modbus CRC16 as the standard defines it, one message bit at a time:
\* the register starts at 0xFFFF; each bit of each byte, least significant
\* first, is compared with the lowest bit of the register, the register is
\* shifted right, and 0xA001 is added (xor) when the two bits differed.
RECURSIVE RefCrcBits(_, _, _)
RefCrcBits(reg, byte, n) ==
    IF n = 0 THEN reg
    ELSE IF (reg % 2) # (byte % 2)
    THEN RefCrcBits(Xor(reg \div 2, 40961), byte \div 2, n - 1)
    ELSE RefCrcBits(reg \div 2, byte \div 2, n - 1)

RECURSIVE RefCrcReg(_)
RefCrcReg(bytes) ==
    IF bytes = <<>> THEN 65535
    ELSE RefCrcBits(RefCrcReg(SubSeq(bytes, 1, Len(bytes) - 1)),
                    bytes[Len(bytes)], 8)

RefCrc16(bytes) ==
    LET reg == RefCrcReg(bytes)
    IN  <<reg % 256, reg \div 256>>

\* C1: in the coordinator at most one session is between its connect and
\* its cleanup, its task holds the lock with the flag set, and no task is
\* queued on the lock; a refresh or poll that arrives while
\* _connection_in_progress is true leaves every task where it was.
C1_SingleFlight ==
    /\ [](/\ Cardinality(Sessions) <= 1
          /\ \A t \in DOMAIN task : task[t].pc # "wait_lock"
          /\ \A t \in Sessions :
                connection_lock = t /\ connection_in_progress)
    /\ [][(connection_in_progress
            /\ event'.op \in {"async_request_refresh", "_async_poll"})
          => (task' = task /\ event'.ret = "skipped")]_vars

\* A refresh was skipped while another task's session is in flight.
C1_Witness ==
    /\ event.op = "async_request_refresh"
    /\ event.ret = "skipped"
    /\ Sessions # {}

\* C2: in the client at most one session is in flight for the device: a
\* poll trigger that arrives during read_device_data connects nothing.
C2_ClientSingleFlight == Cardinality(Sessions) <= 1

\* C3: over every sequence of update_availability calls on a fresh device,
\* a successful call leaves the device available with failure_count 0; a
\* failed call adds one to failure_count, turns available from true to
\* false exactly when failure_count reaches max_failures (3) with that
\* call, and leaves an unavailable device unavailable.
C3_AvailabilityHysteresis ==
    [][event'.op = "update_availability" =>
        IF event'.avail[1]
        THEN dev'.available /\ dev'.failure_count = 0
        ELSE /\ dev'.failure_count = dev.failure_count + 1
             /\ (dev.available /\ ~dev'.available)
                    <=> (dev'.failure_count = max_failures)
             /\ ~dev.available => ~dev'.available
             /\ dev'.failure_count < max_failures
                    => dev'.available = dev.available]_vars

\* The third consecutive failure has just marked the device unavailable.
C3_Witness ==
    /\ event.op = "update_availability"
    /\ event.avail = <<FALSE>>
    /\ ~dev.available
    /\ dev.failure_count = max_failures

\* C4: read_device_data called for a device that is not available and for
\* which should_retry_connection is false returns False at once: no task
\* begins a connect, update_availability is not called, failure_count and
\* available stay as they were.
C4_SkipWhenNotDue ==
    [][(/\ event'.op = "read_device_data:call"
        /\ ~is_available(dev)
        /\ ~should_retry_connection(dev, now).ret)
       => (/\ event'.ret = "False"
           /\ NoNewConnect
           /\ task'[event'.task].pc = Home(event'.task)
           /\ event'.avail = <<>>
           /\ dev'.failure_count = dev.failure_count
           /\ dev'.available = dev.available)]_vars

\* A call for the unavailable device has just been skipped.
C4_Witness ==
    /\ event.op = "read_device_data:call"
    /\ event.ret = "False"
    /\ ~dev.available

\* C5: a coordinator poll for a device that is not available and for which
\* should_retry_connection is false begins no connect.
C5_CoordSkipWhenNotDue ==
    [][(/\ event'.op \in {"async_request_refresh", "_async_poll"}
        /\ discovered
        /\ ~is_available(dev)
        /\ ~should_retry_connection(dev, now).ret)
       => NoNewConnect]_vars

\* C6: while the device stays unavailable, every connect begun for it comes
\* at least UNAVAILABLE_RETRY_INTERVAL after the device was marked
\* unavailable and at least that long after the connect before it.
C6_RetryRateLimit ==
    /\ retry_log # <<>> => marked_at # NoTime
    /\ \A i \in 1..Len(retry_log) :
          retry_log[i] >= marked_at + UNAVAILABLE_RETRY_INTERVAL
    /\ Len(retry_log) = 2
          => retry_log[2] >= retry_log[1] + UNAVAILABLE_RETRY_INTERVAL

\* Two retries were made in one stretch of unavailability.
C6_Witness == Len(retry_log) = 2 /\ ~dev.available

\* The last value that the clock can still take.
LastTick == now + ((MaxTime - now) \div ClockStep) * ClockStep

\* C7: with the polling loop running and time advancing, a device marked
\* unavailable gets another connect; and a session that ends on the
\* unavailable device after parsing at least one command leaves the device
\* available with failure_count 0.
C7_AutomaticRecovery ==
    /\ (/\ running
        /\ task["loop"].pc = "sleep"
        /\ ~dev.available
        /\ ~attempted
        /\ dev.last_unavailable_time + UNAVAILABLE_RETRY_INTERVAL
              <= LastTick)
          ~> attempted
    /\ [][(/\ event'.op = "read_device_data:return"
           /\ event'.any
           /\ ~dev.available)
          => (dev'.available /\ dev'.failure_count = 0)]_vars

\* C8: a session in which at least one command was parsed returns success
\* and calls update_availability(True).
C8_PartialSuccess ==
    (event.op \in {"read_device_data:return", "_read_device_data:return"}
        /\ event.any)
    => (event.ret = "True" /\ event.avail # <<>> /\ event.avail[1])

\* C9: a session in which a transport call raised returns to its caller;
\* it does not raise.
C9_ErrorsBecomeFailure ==
    (event.op \in {"read_device_data:return", "_read_device_data:return"}
        /\ event.error)
    => event.ret # "raised"

\* C10: every listener round of the coordinator invokes every registered
\* listener, whether or not one of them raises.
C10_ListenersIsolated ==
    \A i \in 1..Len(event.rounds) :
        event.rounds[i].invoked = Range(listeners)

\* C11: update_parsed_data returns False without calling the decoder for
\* empty input, for input shorter than 5 bytes and for input whose second
\* byte has bit 0x80 set; the decoder is called only for inputs of at least
\* 5 bytes whose second byte has that bit clear.
C11_ValidateBeforeDecode ==
    call.op = "update_parsed_data" =>
        LET raw_data == call.args[1]
            rejected == \/ Len(raw_data) < 5
                        \/ ErrorBit(raw_data[2])
        IN  /\ rejected => (call.ret[1] = FALSE /\ call.ret[2] = FALSE)
            /\ call.ret[2] => ~rejected

\* A response of full length with the error bit set was refused, the
\* decoder being available and ready to decode it.
C11_Witness ==
    /\ call.op = "update_parsed_data"
    /\ Len(call.args[1]) >= 5
    /\ ErrorBit(call.args[1][2])
    /\ call.args[2]
    /\ call.args[3].fields # {}
    /\ call.ret = <<FALSE, FALSE>>

\* C12: a successful update_parsed_data merges: afterwards parsed_data has
\* every decoded key with its new value and every other key it had with
\* its previous value, and nothing else; and over any sequence of calls the
\* key set of parsed_data never loses a key.
C12_MergeNotReplace ==
    [][call'.op = "update_parsed_data" =>
        /\ KeysOf(dev.parsed_data) \subseteq KeysOf(dev'.parsed_data)
        /\ call'.ret[1] =>
              LET decoded == call'.args[3].fields
              IN  /\ decoded \subseteq dev'.parsed_data
                  /\ \A p \in dev.parsed_data :
                        p[1] \notin KeysOf(decoded) => p \in dev'.parsed_data
                  /\ \A p \in dev'.parsed_data :
                        p \in decoded \/ p \in dev.parsed_data
                  /\ \A p, q \in dev'.parsed_data : p[1] = q[1] => p = q
        /\ ~call'.ret[1] => dev'.parsed_data = dev.parsed_data]_vars

\* A successful call decoded one key and parsed_data still holds another
\* key, which the decoded dict does not have.
C12_Witness ==
    /\ call.op = "update_parsed_data"
    /\ call.ret[1]
    /\ \E p \in dev.parsed_data : p[1] \notin KeysOf(call.args[3].fields)
    /\ \E p \in dev.parsed_data : p \in call.args[3].fields

\* C13: the device-data callback is called, once, at the end of a poll
\* exactly when the session returned success and parsed_data is not empty;
\* it is not called after a failed session, after a session that raised or
\* by a trigger that was skipped; and when the callback raises, no
\* exception leaves the poll.
C13_CallbackAfterSuccess ==
    /\ event.op \in {"_read_device_data:return", "read_device_data:return"}
          => /\ (event.callback \in {"ok", "raised"})
                    <=> (event.ret = "True" /\ dev.parsed_data # {})
             /\ event.callback = "raised" => ~event.escaped
    /\ event.ret \in {"skipped", "False", "raised"}
          => event.callback = "none"

\* A poll ended with success, its callback raised and the poll returned.
C13_Witness ==
    /\ event.op = "_read_device_data:return"
    /\ event.ret = "True"
    /\ event.callback = "raised"
    /\ ~event.escaped

C15_NothingAfterStop ==
    /\ [](~running => \A t \in DOMAIN task : ~InSession(t))
    /\ [][~running =>
            (event'.avail = <<>> /\ event'.callback = "none")]_vars

\* C16: whatever scan_interval is configured, the interval that the client
\* and the coordinator use between polls is within MIN_SCAN_INTERVAL and
\* MAX_SCAN_INTERVAL.
C16_IntervalInRange ==
    call.op \in {"RenogyBLEClient", "RenogyActiveBluetoothCoordinator"}
        => (MIN_SCAN_INTERVAL <= call.ret[1]
                /\ call.ret[1] <= MAX_SCAN_INTERVAL)

C18_ModbusCrc16 ==
    call.op = "modbus_crc" =>
        /\ call.ret = RefCrc16(call.args[1])
        /\ modbus_crc(call.args[1] \o call.ret) = <<0, 0>>

\* The CRC of a sequence of MaxCrcLen bytes has been computed, and its two
\* bytes differ.
C18_Witness ==
    /\ call.op = "modbus_crc"
    /\ Len(call.args[1]) = MaxCrcLen
    /\ call.ret[1] # call.ret[2]

\* C19: _needs_poll returns False when the host is not running, or no
\* connectable device is found, or a connection is in progress; otherwise
\* True when last_poll is None, and otherwise True exactly when at least
\* scan_interval has passed since last_poll.
C19_NeedsPoll ==
    call.op = "_needs_poll" =>
        LET hass_running       == call.args[1]
            connectable_device == call.args[2]
            in_progress        == call.args[3]
            last_poll          == call.args[4]
            elapsed            == call.args[5] - last_poll
            scan_interval      == call.args[6]
            blocked == ~hass_running \/ ~connectable_device \/ in_progress
        IN  /\ blocked => call.ret[1] = FALSE
            /\ (~blocked /\ last_poll = NoTime) => call.ret[1] = TRUE
            /\ (~blocked /\ last_poll # NoTime)
                  => (call.ret[1] <=> elapsed >= scan_interval)

\* Exactly scan_interval after the last poll, with nothing in the way,
\* _needs_poll has answered True.
C19_Witness ==
    /\ call.op = "_needs_poll"
    /\ call.args[1] /\ call.args[2] /\ ~call.args[3]
    /\ call.args[4] # NoTime
    /\ call.args[5] - call.args[4] = call.args[6]
    /\ call.ret = <<TRUE>>

\* C20: on a device that has become unavailable, the first
\* should_retry_connection check returns False and leaves the unavailable
\* timestamp set, a later check made before UNAVAILABLE_RETRY_INTERVAL has
\* passed since the timestamp returns False, and a later check made once it
\* has passed returns True and sets the timestamp to the current time.
C20_FirstCheckRefuses ==
    [][(event'.op = "should_retry_connection" /\ ~is_available(dev))
          => IF call.ret = <<>>
             THEN /\ event'.ret = "False"
                  /\ dev'.last_unavailable_time # NoTime
             ELSE IF now < dev.last_unavailable_time
                              + UNAVAILABLE_RETRY_INTERVAL
             THEN event'.ret = "False"
             ELSE /\ event'.ret = "True"
                  /\ dev'.last_unavailable_time = now]_vars

\* The checks after the first one: False before UNAVAILABLE_RETRY_INTERVAL
\* has passed since the timestamp, True and a timestamp of now afterwards.
C20_LaterChecks ==
    [][(event'.op = "should_retry_connection" /\ ~is_available(dev)
            /\ call.ret # <<>>)
          => IF now < dev.last_unavailable_time
                          + UNAVAILABLE_RETRY_INTERVAL
             THEN event'.ret = "False"
             ELSE /\ event'.ret = "True"
                  /\ dev'.last_unavailable_time = now]_vars

\* The first check since the device became unavailable has returned True.
C20_FirstCheckGranted ==
    /\ event.op = "should_retry_connection"
    /\ ~dev.available
    /\ call.ret = <<TRUE>>

\* C21: no exception of a poll cycle leaves the handler that ran it: the
\* session's, the data callback's and a listener's exception all stay
\* inside async_request_refresh, _async_poll and _process_device.
C21_NothingEscapes ==
    event.op \in {"_read_device_data:return", "read_device_data:return"}
        => ~event.escaped

\* What a session has done to the buffer and the client once the first n
\* commands have been sent: clear, write 1, clear, write 2, ...
CommandCalls(n) ==
    [i \in 1..(2 * n) |->
        GattCall(IF i % 2 = 1 THEN "clear" ELSE "write", (i + 1) \div 2)]

\* C22: while connect and the writes succeed, the commands are written
\* once each in table order, each write right after the buffer and the
\* event were cleared; whatever the earlier commands ended with (parsed,
\* unparsable, timeout), the loop goes on to the next command, and
\* stop_notify is reached only after all of them were written.
C22_EveryCommandSent ==
    LET poll == task["poll"]
    IN  /\ poll.pc \in {"command", "wait"}
              => /\ gatt.calls = CommandCalls(poll.cmd)
                 /\ Len(gatt.results) = poll.cmd - 1
        /\ poll.pc = "stop_notify"
              => /\ gatt.calls = CommandCalls(NumCommands)
                 /\ Len(gatt.results) = NumCommands

\* The first command timed out, the second was answered with something
\* unparsable, and all commands were written.
C22_Witness ==
    /\ task["poll"].pc = "stop_notify"
    /\ gatt.results[1] = "timeout"
    /\ gatt.results[2] = "unparsed"
    /\ gatt.calls = CommandCalls(NumCommands)

\* The awaits of a session that is followed call by call.
SessionAwaits == {"connect", "start_notify", "command", "wait",
                  "stop_notify", "disconnect", "disconnect_cancelled"}

\* C23: the task of a session holds the connection lock at every transport
\* call; when the session ends, by a return, after timeouts, by an
\* exception or by cancellation, the lock is free and
\* _connection_in_progress is False; the flag is True only while the lock
\* is held.
C23_LockAroundSession ==
    /\ [](/\ task["poll"].pc \in SessionAwaits => connection_lock = "poll"
          /\ connection_in_progress => connection_lock # NoTask)
    /\ [][(task["poll"].pc \in SessionAwaits
              /\ task'["poll"].pc \notin SessionAwaits)
          => (connection_lock' = NoTask /\ ~connection_in_progress')]_vars

\* A session that had sent a command was cancelled, and the lock is free.
C23_Witness ==
    /\ event.op = "_read_device_data:cancelled"
    /\ gatt.calls # <<>>
    /\ gatt.results = <<>>
    /\ connection_lock = NoTask
    /\ ~connection_in_progress

\* C24: a session whose client is connected does not end before it has
\* called disconnect: after the last command, after timeouts, after an
\* error of a transport call and on cancellation alike.  A disconnect that
\* raises leaves the result of the session as it was and the session
\* returns.
C24_DisconnectInCleanup ==
    /\ [][(/\ task["poll"].pc \in SessionAwaits \ {"connect"}
           /\ task'["poll"].pc \notin SessionAwaits
           /\ gatt.is_connected)
          => task["poll"].pc \in {"disconnect", "disconnect_cancelled"}]_vars
    /\ [][(/\ task["poll"].pc = "disconnect"
           /\ task'["poll"].pc \notin SessionAwaits
           /\ event'.op # "_read_device_data:cancelled")
          => /\ event'.op = "_read_device_data:return"
             /\ event'.ret = IF task["poll"].success THEN "True" ELSE "False"
             /\ ~event'.escaped]_vars

\* A session that had succeeded returned True although its disconnect
\* raised.
C24_Witness ==
    /\ event.op = "_read_device_data:return"
    /\ event.ret = "True"
    /\ event.error
    /\ gatt.is_connected

\* C25: a poll attempt that began a connect ends having called
\* update_availability exactly once, with the success of its session.
C25_OneAvailabilityUpdate ==
    event.op \in {"_read_device_data:return", "read_device_data:return"}
        => event.avail = <<event.ret = "True">>

\* A poll attempt ended without any update_availability call.
C25_NoUpdate ==
    /\ event.op = "_read_device_data:return"
    /\ event.avail = <<>>

\* C26: a call of update_parsed_data that returns False (empty input, no
\* parser, short response, error bit, decoder finding nothing, decoder
\* raising) leaves the device as it was, and every call returns a bool.
C26_FalseChangesNothing ==
    [][call'.op = "update_parsed_data" =>
          /\ call'.ret[1] \in BOOLEAN
          /\ call'.ret[1] = FALSE => dev' = dev]_vars

\* The decoder raised on a valid frame while the device held parsed data.
C26_Witness ==
    /\ call.op = "update_parsed_data"
    /\ call.args[3].raises
    /\ call.ret = <<FALSE, TRUE>>
    /\ dev.parsed_data # {}

\* C27: one evaluation of should_retry_connection.  On an available device
\* it returns True and changes nothing; on an unavailable device without a
\* timestamp it sets last_unavailable_time to now and returns False; on an
\* unavailable device whose timestamp is UNAVAILABLE_RETRY_INTERVAL or more
\* in the past it sets the timestamp to now and returns True; otherwise it
\* returns False and changes nothing.  failure_count and available are
\* never changed.
C27_ShouldRetryEffect ==
    [][event'.op = "should_retry_connection" =>
          /\ dev'.failure_count = dev.failure_count
          /\ dev'.available = dev.available
          /\ IF is_available(dev)
             THEN event'.ret = "True" /\ dev' = dev
             ELSE IF dev.last_unavailable_time = NoTime
             THEN /\ event'.ret = "False"
                  /\ dev' = [dev EXCEPT !.last_unavailable_time = now]
             ELSE IF now >= dev.last_unavailable_time
                               + UNAVAILABLE_RETRY_INTERVAL
             THEN /\ event'.ret = "True"
                  /\ dev' = [dev EXCEPT !.last_unavailable_time = now]
             ELSE event'.ret = "False" /\ dev' = dev]_vars

\* An evaluation on an unavailable device has granted the retry and moved
\* the timestamp to now.
C27_Witness ==
    /\ event.op = "should_retry_connection"
    /\ event.ret = "True"
    /\ ~is_available(dev)
    /\ now >= UNAVAILABLE_RETRY_INTERVAL
    /\ dev.last_unavailable_time = now

\* C28: when a coordinator poll whose session parsed a command finishes,
\* failure_count is 0 and the device is available; and failure_count goes
\* back to 0 only at the end of a poll that succeeded.
C28_ParsedPollResets ==
    /\ []((event.op = "_read_device_data:return" /\ event.any)
             => (dev.failure_count = 0 /\ dev.available))
    /\ [][(dev.failure_count > 0 /\ dev'.failure_count = 0)
             => (event'.op = "_read_device_data:return"
                    /\ event'.ret = "True")]_vars

\* A poll whose session had parsed a command finished with a failure
\* counted.
C28_ParsedButCounted ==
    /\ event.op = "_read_device_data:return"
    /\ event.any
    /\ dev.failure_count > 0

\* The place of x in the sequence s, 0 when it is not there.
IndexOf(s, x) ==
    IF \E i \in 1..Len(s) : s[i] = x
    THEN CHOOSE i \in 1..Len(s) : s[i] = x /\ \A j \in 1..(i - 1) : s[j] # x
    ELSE 0

\* C29: after a successful session _async_poll notifies the registered
\* listeners first and calls the device-data callback after them.
C29_ListenersBeforeCallback ==
    call.op = "_async_poll"
        => IndexOf(call.ret, "async_update_listeners")
               < IndexOf(call.ret, "device_data_callback")

\* After a successful session the device-data callback was called and the
\* listeners were notified after it.
C29_CallbackFirst ==
    /\ event.op = "_read_device_data:return"
    /\ event.ret = "True"
    /\ Len(listeners) = NumListeners
    /\ call.ret = <<"device_data_callback", "async_update_listeners">>

\* C30: every session that has begun ends: as each transport call returns
\* or raises and each wait for a notification ends by the notification or
\* by its timeout, the task leaves the session, with the lock free and
\* _connection_in_progress False.  (The model stops counting failures at
\* MaxFailureCount, so the session is followed from a state below that
\* count.)
C30_SessionTerminates ==
    (task["poll"].pc \in SessionAwaits
        /\ dev.failure_count < MaxFailureCount)
    ~> (/\ task["poll"].pc = "idle"
        /\ connection_lock = NoTask
        /\ ~connection_in_progress)

\* A session in which no command was answered has been through the wait of
\* every command and is at stop_notify.
C30_Witness ==
    /\ task["poll"].pc = "stop_notify"
    /\ gatt.results = [c \in Commands |-> "timeout"]

\* C31: the bytes that a session hands to update_parsed_data for a command
\* are notifications that answer this command: an answer to an earlier
\* command that arrives after its wait has timed out is not parsed as the
\* answer to a later command.
C31_OnlyOwnNotifications ==
    [][(/\ task["poll"].pc = "wait"
        /\ Len(gatt'.results) = Len(gatt.results) + 1
        /\ gatt'.results[Len(gatt'.results)] \in {"parsed", "unparsed"})
       => \A i \in 1..Len(gatt.notification_data) :
             gatt.notification_data[i] = task["poll"].cmd]_vars

\* The session waits for the answer to a command while the buffer holds
\* an answer to an earlier command, and the event is set.
C31_LateNotification ==
    /\ task["poll"].pc = "wait"
    /\ gatt.notification_event
    /\ \E i \in 1..Len(gatt.notification_data) :
          gatt.notification_data[i] < task["poll"].cmd

\* C32: every entry of discovered_devices was made for an advertisement
\* whose name is a string that starts with "BT-TH-"; and on a client with
\* a device_address, scan_for_devices and the discovery callback add no
\* entry of another address and return no device of another address.
C32_OnlyRenogyDevices ==
    /\ [](\A e \in client.discovered_devices :
             /\ ~e[2].is_none
             /\ Len(e[2].chars) >= 6
             /\ SubSeq(e[2].chars, 1, 6) = <<"B", "T", "-", "T", "H", "-">>)
    /\ [][(/\ client.device_address # NoAddress
           /\ call'.op \in {"scan_for_devices", "_async_discovered_device"})
          => /\ AddressesOf(client'.discovered_devices
                               \ client.discovered_devices)
                   \subseteq {client.device_address}
             /\ call'.ret \subseteq {client.device_address}]_vars

\* A scan on a client with a device_address saw connectable devices at
\* every address, and added and returned the one of that address only.
C32_Witness ==
    /\ call.op = "scan_for_devices"
    /\ client.device_address # NoAddress
    /\ call.args[1] = Addresses
    /\ call.ret = {client.device_address}
    /\ AddressesOf(client.discovered_devices) = {client.device_address}

\* C33: in every state that update_availability and
\* should_retry_connection reach from a fresh device, an available device
\* has fewer than max_failures failures, so that is_available is the
\* available flag.
C33_AvailableBelowThreshold ==
    /\ dev.available => dev.failure_count < max_failures
    /\ is_available(dev) = dev.available

\* A retry check on a device that is one failure short of the threshold.
C33_Witness ==
    /\ event.op = "should_retry_connection"
    /\ dev.available
    /\ dev.failure_count = max_failures - 1

\* C34: in every such state last_unavailable_time is set exactly when the
\* device is not available, and no retry check meets a device that is
\* refused by is_available and has no timestamp.
C34_TimestampIffUnavailable ==
    /\ [](dev.last_unavailable_time # NoTime <=> ~dev.available)
    /\ [][event'.op = "should_retry_connection"
             => ~(~is_available(dev) /\ dev.last_unavailable_time = NoTime)]_vars

\* A retry check on an unavailable device took the branch of the elapsed
\* interval, and the device recovered afterwards: the timestamp is gone.
C34_Witness ==
    /\ event.op = "update_availability"
    /\ event.avail = <<TRUE>>
    /\ call.op = "should_retry_connection"
    /\ TRUE \in Range(call.ret)
    /\ dev.available
    /\ dev.last_unavailable_time = NoTime

\* C35: when async_request_refresh has run a session and finishes,
\* last_update_success is true exactly if the session returned success.
C35_RefreshReportsSession ==
    (event.op = "_read_device_data:return" /\ event.task \in RefreshTasks)
        => (last_update_success <=> event.ret = "True")

\* A refresh whose session returned False and counted a failure finished
\* with last_update_success = True.
C35_FailureReportedAsSuccess ==
    /\ event.op = "_read_device_data:return"
    /\ event.task \in RefreshTasks
    /\ event.ret = "False"
    /\ event.avail = <<FALSE>>
    /\ last_update_success

\* C36: a poll cycle that succeeded, started by async_request_refresh or
\* by _async_poll, has invoked every registered listener exactly once; a
\* cycle skipped for a connection in progress has invoked none.
C36_ListenersOncePerCycle ==
    /\ (event.op = "_read_device_data:return" /\ event.ret = "True")
          => \A l \in Range(listeners) :
                Cardinality({i \in 1..Len(event.rounds) :
                                l \in event.rounds[i].invoked}) = 1
    /\ (event.op \in {"async_request_refresh", "_async_poll"}
           /\ event.ret = "skipped")
          => event.rounds = <<>>

\* A refresh whose session succeeded made two rounds over the listeners,
\* none of which raised: every listener was invoked twice.
C36_InvokedTwice ==
    /\ event.op = "_read_device_data:return"
    /\ event.task = "manual"
    /\ event.ret = "True"
    /\ Len(listeners) = NumListeners
    /\ Len(event.rounds) = 2
    /\ \A i \in 1..2 :
          /\ ~event.rounds[i].raised
          /\ event.rounds[i].invoked = Range(listeners)

\* C37: once stop_polling has been called, and until start_polling is
\* called again, the polling task begins no transport connect, whether it
\* was cancelled in its sleep or in the middle of a session of a scan with
\* further devices to process.
C37_NoConnectAfterStop ==
    [][~running
         => ~(/\ task'["loop"].pc = "connect"
              /\ (task["loop"].pc # "connect"
                    \/ task'["loop"].todo # task["loop"].todo))]_vars

\* After stop_polling the polling task, cancelled in the session of one
\* device, is connecting to the next device of the scan.
C37_ConnectsAfterStop ==
    /\ ~running
    /\ task["stop"].pc = "await_scan_task"
    /\ scan_task = "task"
    /\ event.op = "read_device_data:return"
    /\ task["loop"].pc = "connect"

\* C38: whatever the order of the start_polling and stop_polling calls, at
\* most one _polling_loop task is alive at a time, and a start_polling
\* call on a running client creates no task.
C38_OnePollingTask ==
    /\ [](Cardinality({t \in LoopTasks : Alive(t)}) <= 1)
    /\ [][(running /\ event'.op = "start_polling")
             => \A t \in LoopTasks : Alive(t)' = Alive(t)]_vars

\* start_polling was called while stop_polling waited for the task it had
\* cancelled in a session; that task went on, and now both polling loops
\* are in a session with the one device.
C38_TwoPollingLoops ==
    /\ running
    /\ \A t \in LoopTasks : InSession(t) /\ ~task[t].cancel
    /\ task["stop"].pc = "await_scan_task"

\* C39: the coordinator's data changes only in the step that ends a
\* successful session, and is then equal to the device's parsed_data; a
\* failed or skipped poll, and every later change of parsed_data, leave it
\* as it is.
C39_SnapshotOnlyOnSuccess ==
    [][data' # data
         => /\ event'.op = "_read_device_data:return"
            /\ event'.ret = "True"
            /\ data' = dev'.parsed_data]_vars

\* A later session has changed parsed_data and has failed: the data is
\* still the snapshot of the earlier success.
C39_Witness ==
    /\ event.op = "_read_device_data:return"
    /\ event.ret = "False"
    /\ data # {}
    /\ dev.parsed_data # data

====
